---- MODULE Spec2Model ----
(***************************************************************************)
(* Model of the coraza-kubernetes-operator rule cache                      *)
(* (internal/rulesets/cache: RuleSetCache and ruleSetCacheServer).         *)
(*                                                                         *)
(* Go strings are modelled as sequences of tokens: every token other than  *)
(* "/" stands for a non-empty run of bytes without a slash, so the string  *)
(* "a/latest" is <<"a", "/", "latest">>.  strings.TrimPrefix and           *)
(* strings.CutSuffix are computed on these sequences.                      *)
(*                                                                         *)
(* The model clock counts half seconds, so that a timestamp can have a     *)
(* non-zero sub-second part, which time.RFC3339Nano renders and            *)
(* time.RFC3339 drops.                                                     *)
(***************************************************************************)
EXTENDS Integers, Sequences, FiniteSets, TLC

VARIABLES
    entries,    \* RuleSetCache.entries: map[string]*RuleSetEntries
    now,        \* the wall clock read by time.Now()
    nextUUID,   \* number of uuid.New() calls so far; the next fresh id
    putLog,     \* history variable: per key, the entries created by Put, in order
    req,        \* the HTTP request handleRules answered from the current cache, if any
    resp,       \* the response written for req
    mu,         \* RuleSetCache.mu: the writer (if any) and the readers holding it
    pc,         \* position of every goroutine of the fine-grained specification
    local,      \* locals of every goroutine (instance, rules, newEntry, result)
    committed,  \* history variable: the cache as of the last release of mu by a writer
    polled,     \* history variable: per key, the responses to GET /rules/{key}/latest
                \* and GET /rules/{key} since the last Put to the key
    rulesets,   \* the RuleSet objects of the API server, by namespaced name
    configmaps, \* the ConfigMap objects of the API server, by namespaced name
    queue,      \* the work queue of the RuleSet controller (requests, deduplicated)
    mapped,     \* history variable: the last ConfigMap event and the requests
                \* findRuleSetsForConfigMap returned for it
    reconciled, \* history variable: the Reconcile call made since the API objects
                \* last changed, if any (request, result, events, keys Put)
    edits,      \* number of changes made to the API objects so far
    engines,    \* the Engine objects of the API server, by namespaced name
    wasmplugins, \* the WasmPlugin objects of the API server, by namespaced name
    provisioned, \* history variable: the last Reconcile call of the Engine
                \* controller, if any (request, result, events, objects applied)
    stamps      \* number of SetEntryTimestamp calls so far

vars == <<entries, now, nextUUID, putLog, req, resp, mu, pc, local, committed, polled,
          rulesets, configmaps, queue, mapped, reconciled, edits,
          engines, wasmplugins, provisioned, stamps>>

httpVars == <<req, resp, polled>>
procVars == <<mu, pc, local, committed>>
watchVars == <<queue, mapped>>
engineVars == <<engines, wasmplugins, provisioned>>
apiVars == <<rulesets, configmaps, watchVars, reconciled, edits, engineVars, stamps>>

----------------------------------------------------------------------------
(* Bounds of the model *)

\* total number of Put calls (uuid.New() calls) explored
MaxPuts == 3

\* the clock runs from 0 to MaxTime
MaxTime == 1

\* number of changes made to the ConfigMaps while the reconciler runs
MaxEdits == 1

\* total number of Put calls explored where two keys must each hold an old
\* version
MaxVersions == 4

\* number of SetEntryTimestamp calls explored
MaxStamps == 1

\* number of Put calls explored while the sweeper runs statement by statement
MaxSweptPuts == 2

\* largest generation of a resource the status helpers are applied to
MaxGeneration == 2

\* number of Put calls explored between the requests of a polling client
MaxReadPuts == 2

\* number of Put calls explored while Reconcile runs statement by statement
MaxPublishPuts == 2

----------------------------------------------------------------------------
(* Strings *)

Slash == "/"

\* the mux pattern "/rules/" that handleRules trims
RulesPrefix == <<Slash, "rules", Slash>>

\* the suffix "/latest" that handleRules cuts
LatestSuffix == <<Slash, "latest">>

HasPrefix(s, p) ==
    /\ Len(s) >= Len(p)
    /\ SubSeq(s, 1, Len(p)) = p

HasSuffix(s, suf) ==
    /\ Len(s) >= Len(suf)
    /\ SubSeq(s, Len(s) - Len(suf) + 1, Len(s)) = suf

\* strings.TrimPrefix: s without the leading p, or s unchanged
TrimPrefix(s, p) ==
    IF HasPrefix(s, p) THEN SubSeq(s, Len(p) + 1, Len(s)) ELSE s

\* strings.CutSuffix: (s without the trailing suf, true), or (s, false)
CutSuffix(s, suf) ==
    IF HasSuffix(s, suf)
    THEN [before |-> SubSeq(s, 1, Len(s) - Len(suf)), found |-> TRUE]
    ELSE [before |-> s, found |-> FALSE]

\* namespaces and names of the RuleSets the reconciler publishes
Namespaces == {"a"}
Names == {"a", "latest"}

\* fmt.Sprintf("%s/%s", ruleset.Namespace, ruleset.Name)
CacheKey(ns, name) == <<ns, Slash, name>>

Keys == {CacheKey(ns, name) : ns \in Namespaces, name \in Names}

\* the rule blobs the Puts are explored with: the empty blob and a one-byte blob
Blobs == {<<>>, <<"x">>}

----------------------------------------------------------------------------
(* RuleSetCache *)

\* variant of NewEntry: the version id is derived from the blob (deduplication)
NewEntryFromContent(id, t, rules) ==
    [UUID |-> Len(rules), Timestamp |-> t, Rules |-> rules]

\* a RuleSetEntry with a fresh UUID and the current time
NewEntry(id, t, rules) == [UUID |-> id, Timestamp |-> t, Rules |-> rules]

\* the (entry, ok) pair returned by Get
NotFound == [ok |-> FALSE]
Found(e) == [ok |-> TRUE, entry |-> e]

RECURSIVE FindLatest(_, _, _)
\* the loop of Get: the first entry from index i on whose UUID is latest
FindLatest(es, latest, i) ==
    IF i > Len(es) THEN NotFound
    ELSE IF es[i].UUID = latest THEN Found(es[i])
    ELSE FindLatest(es, latest, i + 1)

\* RuleSetCache.Get
Get(c, instance) ==
    IF instance \notin DOMAIN c \/ Len(c[instance].Entries) = 0
    THEN NotFound
    ELSE FindLatest(c[instance].Entries, c[instance].Latest, 1)

\* c.entries[instance] = &RuleSetEntries{Latest: ..., Entries: ...}
CreateEntries(c, instance, newEntry) ==
    (instance :> [Latest |-> newEntry.UUID, Entries |-> <<newEntry>>]) @@ c

\* variant of AppendEntry: a blob equal to the last one is not stored again
AppendEntryUnlessSame(c, instance, newEntry) ==
    IF c[instance].Entries[Len(c[instance].Entries)].Rules = newEntry.Rules
    THEN c
    ELSE [c EXCEPT ![instance].Entries = Append(@, newEntry)]

\* c.entries[instance].Entries = append(c.entries[instance].Entries, newEntry)
AppendEntry(c, instance, newEntry) ==
    [c EXCEPT ![instance].Entries = Append(@, newEntry)]

\* c.entries[instance].Latest = newEntry.UUID
SetLatest(c, instance, newEntry) ==
    [c EXCEPT ![instance].Latest = newEntry.UUID]

\* variant of PutEntry: the new entry is put at the head of the history
PutEntryAtHead(c, instance, newEntry) ==
    IF instance \notin DOMAIN c
    THEN (instance :> [Latest |-> newEntry.UUID, Entries |-> <<newEntry>>]) @@ c
    ELSE [c EXCEPT ![instance] =
            [Latest |-> newEntry.UUID, Entries |-> <<newEntry>> \o @.Entries]]

\* the map after RuleSetCache.Put stored newEntry for instance
PutEntry(c, instance, newEntry) ==
    IF instance \notin DOMAIN c
    THEN CreateEntries(c, instance, newEntry)
    ELSE SetLatest(AppendEntry(c, instance, newEntry), instance, newEntry)

RECURSIVE SumSizesButLast(_, _)
\* variant of SumSizes: the last entry of the history is not counted
SumSizesButLast(es, i) ==
    IF i >= Len(es) THEN 0 ELSE Len(es[i].Rules) + SumSizesButLast(es, i + 1)

RECURSIVE SumSizes(_, _)
SumSizes(es, i) ==
    IF i > Len(es) THEN 0 ELSE Len(es[i].Rules) + SumSizes(es, i + 1)

RECURSIVE SumKeys(_, _)
SumKeys(c, ks) ==
    IF ks = {} THEN 0
    ELSE LET k == CHOOSE x \in ks : TRUE
         IN  SumSizes(c[k].Entries, 1) + SumKeys(c, ks \ {k})

\* RuleSetCache.TotalSize
TotalSize(c) == SumKeys(c, DOMAIN c)

\* variant of PruneEntries: the latest entry is not exempt from the age test
PruneEntriesByAgeOnly(h, maxAge, t) ==
    SelectSeq(h.Entries, LAMBDA e : t - e.Timestamp <= maxAge)

\* the inner loop of Prune for one instance at time t
PruneEntries(h, maxAge, t) ==
    SelectSeq(h.Entries,
              LAMBDA e : e.UUID = h.Latest \/ t - e.Timestamp <= maxAge)

\* the map after RuleSetCache.Prune(maxAge) at time t
PruneCache(c, maxAge, t) ==
    [k \in DOMAIN c |-> [c[k] EXCEPT !.Entries = PruneEntries(c[k], maxAge, t)]]

RECURSIVE CountPrunedFromAge(_, _, _, _)
\* variant of CountPruned: an entry whose age equals maxAge is counted too
CountPrunedFromAge(h, maxAge, t, i) ==
    IF i > Len(h.Entries) THEN 0
    ELSE IF h.Entries[i].UUID = h.Latest THEN CountPrunedFromAge(h, maxAge, t, i + 1)
    ELSE IF t - h.Entries[i].Timestamp < maxAge
    THEN CountPrunedFromAge(h, maxAge, t, i + 1)
    ELSE 1 + CountPrunedFromAge(h, maxAge, t, i + 1)

RECURSIVE CountPruned(_, _, _, _)
\* the increments of pruned in the inner loop of Prune for one instance,
\* from index i on
CountPruned(h, maxAge, t, i) ==
    IF i > Len(h.Entries) THEN 0
    ELSE IF h.Entries[i].UUID = h.Latest THEN CountPruned(h, maxAge, t, i + 1)
    ELSE IF t - h.Entries[i].Timestamp <= maxAge THEN CountPruned(h, maxAge, t, i + 1)
    ELSE 1 + CountPruned(h, maxAge, t, i + 1)

RECURSIVE SumPruned(_, _, _, _)
\* pruned after the loop of Prune over the instances ks
SumPruned(c, ks, maxAge, t) ==
    IF ks = {} THEN 0
    ELSE LET k == CHOOSE x \in ks : TRUE
         IN  CountPruned(c[k], maxAge, t, 1) + SumPruned(c, ks \ {k}, maxAge, t)

\* the value RuleSetCache.Prune(maxAge) returns at time t
PruneReturn(c, maxAge, t) ==
    IF Cardinality(DOMAIN c) = 0 THEN 0
    ELSE SumPruned(c, DOMAIN c, maxAge, t)

RECURSIVE PruneSizeEntriesAll(_, _, _, _, _)
\* variant of PruneSizeEntries: the latest entry is not exempt from the size test
PruneSizeEntriesAll(h, i, kept, currentSize, maxSize) ==
    IF i > Len(h.Entries) THEN [kept |-> kept, size |-> currentSize]
    ELSE LET e == h.Entries[i] IN
         IF currentSize > maxSize
         THEN PruneSizeEntriesAll(h, i + 1, kept, currentSize - Len(e.Rules), maxSize)
         ELSE PruneSizeEntriesAll(h, i + 1, Append(kept, e), currentSize, maxSize)

RECURSIVE PruneSizeEntries(_, _, _, _, _)
\* the inner loop of PruneBySize for one instance, from index i on:
\* the entries kept and the size that remains
PruneSizeEntries(h, i, kept, currentSize, maxSize) ==
    IF i > Len(h.Entries) THEN [kept |-> kept, size |-> currentSize]
    ELSE LET e == h.Entries[i] IN
         IF e.UUID = h.Latest
         THEN PruneSizeEntries(h, i + 1, Append(kept, e), currentSize, maxSize)
         ELSE IF currentSize > maxSize
         THEN PruneSizeEntries(h, i + 1, kept, currentSize - Len(e.Rules), maxSize)
         ELSE PruneSizeEntries(h, i + 1, Append(kept, e), currentSize, maxSize)

RECURSIVE CountSizePrunedAll(_, _, _, _)
\* variant of CountSizePruned: every non-latest entry is counted, whatever the
\* size
CountSizePrunedAll(h, i, currentSize, maxSize) ==
    IF i > Len(h.Entries) THEN 0
    ELSE IF h.Entries[i].UUID = h.Latest
    THEN CountSizePrunedAll(h, i + 1, currentSize, maxSize)
    ELSE 1 + CountSizePrunedAll(h, i + 1, currentSize, maxSize)

RECURSIVE CountSizePruned(_, _, _, _)
\* the increments of pruned in the inner loop of PruneBySize for one
\* instance, from index i on
CountSizePruned(h, i, currentSize, maxSize) ==
    IF i > Len(h.Entries) THEN 0
    ELSE IF h.Entries[i].UUID = h.Latest
    THEN CountSizePruned(h, i + 1, currentSize, maxSize)
    ELSE IF currentSize > maxSize
    THEN 1 + CountSizePruned(h, i + 1, currentSize - Len(h.Entries[i].Rules), maxSize)
    ELSE CountSizePruned(h, i + 1, currentSize, maxSize)

RECURSIVE PruneSizeLoop(_, _, _, _, _)
\* the outer loop of PruneBySize over the instances in the order the map
\* iteration yields them, from index i on
PruneSizeLoop(c, order, i, currentSize, maxSize) ==
    IF i > Len(order) \/ currentSize <= maxSize THEN c
    ELSE LET r == PruneSizeEntries(c[order[i]], 1, <<>>, currentSize, maxSize)
         IN  PruneSizeLoop([c EXCEPT ![order[i]].Entries = r.kept],
                           order, i + 1, r.size, maxSize)

\* the map after RuleSetCache.PruneBySize(maxSize) when the map iteration
\* yields the instances in the given order
PruneBySizeCache(c, order, maxSize) ==
    IF TotalSize(c) <= maxSize THEN c
    ELSE PruneSizeLoop(c, order, 1, TotalSize(c), maxSize)

RECURSIVE SumSizePruned(_, _, _, _, _)
\* pruned after the outer loop of PruneBySize, from index i of the order on
SumSizePruned(c, order, i, currentSize, maxSize) ==
    IF i > Len(order) \/ currentSize <= maxSize THEN 0
    ELSE CountSizePruned(c[order[i]], 1, currentSize, maxSize)
           + SumSizePruned(c, order, i + 1,
                           PruneSizeEntries(c[order[i]], 1, <<>>,
                                            currentSize, maxSize).size,
                           maxSize)

\* the value RuleSetCache.PruneBySize(maxSize) returns when the map iteration
\* yields the instances in the given order
PruneBySizeReturn(c, order, maxSize) ==
    IF TotalSize(c) <= maxSize THEN 0
    ELSE SumSizePruned(c, order, 1, TotalSize(c), maxSize)

\* the orders in which a Go map iteration can yield the keys
IterationOrders(c) ==
    {o \in [1..Cardinality(DOMAIN c) -> DOMAIN c] :
        \A i, j \in DOMAIN o : i # j => o[i] # o[j]}

----------------------------------------------------------------------------
(* ruleSetCacheServer *)

\* seconds and sub-second part of a clock value (the clock counts half seconds)
Seconds(t) == t \div 2
HalfSecond(t) == t % 2

\* entry.Timestamp.Format(TimestampFormat), TimestampFormat = time.RFC3339Nano:
\* the fraction is printed only when it is not zero
TimestampFormat(t) ==
    [sec |-> Seconds(t), frac |-> IF HalfSecond(t) = 0 THEN <<>> ELSE <<5>>]

\* time.Time as encoding/json renders it in a RuleSetEntry (RFC 3339 with
\* nanoseconds as well)
MarshalTime(t) ==
    [sec |-> Seconds(t), frac |-> IF HalfSecond(t) = 0 THEN <<>> ELSE <<5>>]

\* http.Error(w, msg, code)
HttpError(code, msg) == [status |-> code, body |-> msg]

\* json.NewEncoder(w).Encode(LatestResponse{...}) after WriteHeader(200)
LatestResponse(e) ==
    [status |-> 200,
     body |-> [uuid |-> e.UUID, timestamp |-> TimestampFormat(e.Timestamp)]]

\* json.NewEncoder(w).Encode(entry) after WriteHeader(200)
RulesResponse(e) ==
    [status |-> 200,
     body |-> [uuid |-> e.UUID, timestamp |-> MarshalTime(e.Timestamp),
               rules |-> e.Rules]]

\* variant of handleLatest: the ok result of Get is not checked
handleLatestUnchecked(c, cacheKey) ==
    LET r == Get(c, cacheKey) IN
    IF ~r.ok THEN [status |-> 200, body |-> [uuid |-> 0, timestamp |-> TimestampFormat(0)]]
    ELSE LatestResponse(r.entry)

\* ruleSetCacheServer.handleLatest
handleLatest(c, cacheKey) ==
    LET r == Get(c, cacheKey) IN
    IF ~r.ok THEN HttpError(404, "RuleSet not found")
    ELSE LatestResponse(r.entry)

\* ruleSetCacheServer.handleGetRules (the ListKeys and TotalSize calls of its
\* log line only read the cache)
handleGetRules(c, cacheKey) ==
    LET r == Get(c, cacheKey) IN
    IF ~r.ok THEN HttpError(404, "RuleSet not found")
    ELSE RulesResponse(r.entry)

\* variant of handleRules: the key is checked before the method
handleRulesKeyFirst(c, method, urlPath) ==
    LET path == TrimPrefix(urlPath, RulesPrefix) IN
    IF path = <<>> THEN HttpError(400, "RuleSet key required")
    ELSE IF method # "GET" THEN HttpError(405, "Method not allowed")
    ELSE LET cut == CutSuffix(path, LatestSuffix) IN
         IF cut.found THEN handleLatest(c, cut.before)
         ELSE handleGetRules(c, path)

\* ruleSetCacheServer.handleRules: the response to a request
handleRules(c, method, urlPath) ==
    IF method # "GET" THEN HttpError(405, "Method not allowed")
    ELSE LET path == TrimPrefix(urlPath, RulesPrefix) IN
         IF path = <<>> THEN HttpError(400, "RuleSet key required")
         ELSE LET cut == CutSuffix(path, LatestSuffix) IN
              IF cut.found THEN handleLatest(c, cut.before)
              ELSE handleGetRules(c, path)

\* the request paths the mux pattern "/rules/" routes to handleRules
RulesPath(key) == RulesPrefix \o key
LatestPath(key) == RulesPrefix \o key \o LatestSuffix

\* the keys the requests are explored with: the empty key, the keys of the
\* RuleSets and the key of a RuleSet that is never published
RequestKeys == {<<>>, CacheKey("latest", "a")} \cup Keys
RequestPaths == {RulesPath(k) : k \in RequestKeys} \cup {LatestPath(k) : k \in RequestKeys}
Methods == {"GET", "POST"}

NoRequest == [method |-> "none", path |-> <<>>]
NoResponse == [status |-> 0, body |-> "none"]
NotPolled == [latest |-> NoResponse, rules |-> NoResponse]

\* the responses seen for the two routes of a key, after a GET on one of them
Observe(p, key, route, response) ==
    [p EXCEPT ![key] = IF route = "latest"
                       THEN [@ EXCEPT !.latest = response]
                       ELSE [@ EXCEPT !.rules = response]]

----------------------------------------------------------------------------
(* Initial state and the operations, each atomic under mu *)

\* no Reconcile call has been made
NoReconcile == [request |-> <<>>]

\* no ConfigMap event has been mapped
NoEvent == [requests |-> <<>>]

\* an API server without RuleSets and ConfigMaps, and an idle controller
NoProvision == [request |-> <<>>]

\* no Engine and no WasmPlugin exists, no timestamp was rewritten
NoEngines ==
    /\ engines = <<>>
    /\ wasmplugins = <<>>
    /\ provisioned = NoProvision
    /\ stamps = 0

NoResources ==
    /\ NoEngines
    /\ rulesets = <<>>
    /\ configmaps = <<>>
    /\ queue = {}
    /\ mapped = NoEvent
    /\ reconciled = NoReconcile
    /\ edits = 0

Init ==
    /\ entries = <<>>
    /\ now = 0
    /\ nextUUID = 1
    /\ putLog = [k \in Keys |-> <<>>]
    /\ req = NoRequest
    /\ resp = NoResponse
    /\ mu = [writer |-> "none", readers |-> {}]
    /\ pc = <<>>
    /\ local = <<>>
    /\ committed = <<>>
    /\ polled = [k \in Keys |-> NotPolled]
    /\ NoResources

\* time passes
Tick ==
    /\ now < MaxTime
    /\ now' = now + 1
    /\ UNCHANGED <<entries, nextUUID, putLog, httpVars, procVars, apiVars>>

\* RuleSetCache.Put(instance, rules) on the entries, while fewer than limit
\* version ids were drawn
PutCache(limit, instance, rules) ==
    /\ nextUUID <= limit
    /\ LET newEntry == NewEntry(nextUUID, now, rules) IN
        /\ entries' = PutEntry(entries, instance, newEntry)
        /\ putLog' = [putLog EXCEPT ![instance] = Append(@, newEntry)]
    /\ nextUUID' = nextUUID + 1

\* the effect of a call of RuleSetCache.Put(instance, rules) on the cache,
\* while fewer than limit version ids were drawn
PutVersion(limit, instance, rules) ==
    /\ PutCache(limit, instance, rules)
    /\ polled' = [polled EXCEPT ![instance] = NotPolled]
    /\ req' = NoRequest
    /\ resp' = NoResponse
    /\ UNCHANGED <<now, procVars>>

\* the effect of a call of RuleSetCache.Put(instance, rules) on the cache
CachePut(instance, rules) == PutVersion(MaxPuts, instance, rules)

\* RuleSetCache.Put(instance, rules)
Put(instance, rules) ==
    /\ CachePut(instance, rules)
    /\ UNCHANGED apiVars

\* RuleSetCache.Prune(maxAge)
Prune(maxAge) ==
    /\ entries' = PruneCache(entries, maxAge, now)
    /\ req' = NoRequest
    /\ resp' = NoResponse
    /\ UNCHANGED <<now, nextUUID, putLog, polled, procVars, apiVars>>

\* RuleSetCache.PruneBySize(maxSize)
PruneBySize(maxSize) ==
    /\ \E order \in IterationOrders(entries) :
          entries' = PruneBySizeCache(entries, order, maxSize)
    /\ req' = NoRequest
    /\ resp' = NoResponse
    /\ UNCHANGED <<now, nextUUID, putLog, polled, procVars, apiVars>>

\* an HTTP request served by handleRules
Request(method, urlPath) ==
    /\ req' = [method |-> method, path |-> urlPath]
    /\ resp' = handleRules(entries, method, urlPath)
    /\ UNCHANGED <<entries, now, nextUUID, putLog, polled, procVars, apiVars>>

\* a data-plane client polls one of the two routes of a key
Poll(key, route) ==
    /\ LET urlPath == IF route = "latest" THEN LatestPath(key) ELSE RulesPath(key)
       IN  polled' = Observe(polled, key, route, handleRules(entries, "GET", urlPath))
    /\ UNCHANGED <<entries, now, nextUUID, putLog, req, resp, procVars, apiVars>>

\* the parameters the prune calls are explored with
MaxAges == -1..MaxTime
MaxSizes == -1..MaxPuts

\* the cache operations
Next ==
    \/ Tick
    \/ \E instance \in Keys, rules \in Blobs : Put(instance, rules)
    \/ \E maxAge \in MaxAges : Prune(maxAge)
    \/ \E maxSize \in MaxSizes : PruneBySize(maxSize)

Spec == Init /\ [][Next]_vars

\* the cache operations and the HTTP server
NextHTTP ==
    \/ Next
    \/ \E method \in Methods, urlPath \in RequestPaths : Request(method, urlPath)

SpecHTTP == Init /\ [][NextHTTP]_vars

\* the cache operations and a polling client
NextPoll ==
    \/ Next
    \/ \E key \in Keys, route \in {"latest", "rules"} : Poll(key, route)

SpecPoll == Init /\ [][NextPoll]_vars

----------------------------------------------------------------------------
(* Properties of the cache *)

Last(s) == s[Len(s)]

\* the keys that have more than one version and lost at least one to pruning
Pruned(k) ==
    /\ k \in DOMAIN entries
    /\ Len(putLog[k]) >= 2
    /\ Len(entries[k].Entries) < Len(putLog[k])

\* C1: latest-preservation.  After any sequence of Put, Prune(maxAge) and
\* PruneBySize(maxSize) calls with any parameters, every key present in the
\* cache still has at least one entry, and Get(key) returns the entry created
\* by the most recent Put to that key (same version id, same rules).
LatestPreserved ==
    \A k \in DOMAIN entries :
        /\ Len(entries[k].Entries) >= 1
        /\ putLog[k] # <<>>
        /\ Get(entries, k).ok
        /\ Get(entries, k).entry.UUID = Last(putLog[k]).UUID
        /\ Get(entries, k).entry.Rules = Last(putLog[k]).Rules

\* a key with several versions of which a prune removed all but the latest
LatestPreservedWitness ==
    \E k \in Keys :
        /\ Pruned(k)
        /\ Len(entries[k].Entries) = 1
        /\ Get(entries, k).ok

\* the positions of a history whose version id is the latest id
LatestPositions(h) == {i \in 1..Len(h.Entries) : h.Entries[i].UUID = h.Latest}

\* C2: for every key present, exactly one entry of the history has the
\* version id latest-id; the history is never empty and latest-id never names
\* an absent entry, so that Get on a present key succeeds.
ExactlyOneLatest ==
    \A k \in DOMAIN entries :
        /\ entries[k].Entries # <<>>
        /\ Cardinality(LatestPositions(entries[k])) = 1
        /\ Get(entries, k).ok

\* a key that kept an older version next to its latest one after a prune
ExactlyOneLatestWitness ==
    \E k \in Keys :
        /\ Pruned(k)
        /\ Len(entries[k].Entries) = 2

RECURSIVE IsSubseq(_, _)
\* s is a subsequence of t (the elements of s occur in t in the same order)
IsSubseq(s, t) ==
    IF s = <<>> THEN TRUE
    ELSE IF t = <<>> THEN FALSE
    ELSE IF Head(s) = Head(t) THEN IsSubseq(Tail(s), Tail(t))
    ELSE IsSubseq(s, Tail(t))

\* C4: the history of every key is the insertion-ordered subsequence of the
\* entries Put to that key: it is the whole sequence of Puts while nothing
\* was pruned, prunes never reorder the survivors, and the latest entry is
\* the last element of the history.
HistoryInsertionOrdered ==
    \A k \in DOMAIN entries :
        /\ IsSubseq(entries[k].Entries, putLog[k])
        /\ Last(entries[k].Entries) = Last(putLog[k])
        /\ entries[k].Latest = Last(entries[k].Entries).UUID

\* three Puts to a key of which a prune removed one and kept two, in order
HistoryInsertionOrderedWitness ==
    \E k \in Keys :
        /\ k \in DOMAIN entries
        /\ Len(putLog[k]) = 3
        /\ Len(entries[k].Entries) = 2

\* C5: every Put creates an entry with a fresh version id.  The version ids
\* of the entries Put to a key are pairwise distinct, also when the blobs are
\* identical, and Get returns the id and the blob of the last Put.
FreshVersionIds ==
    \A k \in DOMAIN entries :
        /\ \A i, j \in 1..Len(putLog[k]) :
              i # j => putLog[k][i].UUID # putLog[k][j].UUID
        /\ \A i, j \in 1..Len(entries[k].Entries) :
              i # j => entries[k].Entries[i].UUID # entries[k].Entries[j].UUID
        /\ Get(entries, k) = Found(Last(putLog[k]))

\* two Puts of the same blob to the same key, both still in the history
FreshVersionIdsWitness ==
    \E k \in Keys :
        /\ k \in DOMAIN entries
        /\ Len(entries[k].Entries) >= 2
        /\ entries[k].Entries[1].Rules = entries[k].Entries[2].Rules
        /\ entries[k].Entries[1].Timestamp = entries[k].Entries[2].Timestamp

----------------------------------------------------------------------------
(* Properties of the HTTP server *)

\* the request with the given method and URL path
Requested(method, urlPath) == [method |-> method, path |-> urlPath]

\* C6: for every key present in the cache, whatever its name, GET
\* /rules/{key} returns 200 with the uuid, timestamp and rules of the key's
\* latest entry, and GET /rules/{key}/latest returns 200 with the uuid and
\* timestamp of the same entry.
ServesEveryPresentKey ==
    \A k \in DOMAIN entries :
        /\ req = Requested("GET", RulesPath(k)) =>
              /\ resp.status = 200
              /\ resp.body.uuid = Last(putLog[k]).UUID
              /\ resp.body.timestamp = TimestampFormat(Last(putLog[k]).Timestamp)
              /\ resp.body.rules = Last(putLog[k]).Rules
        /\ req = Requested("GET", LatestPath(k)) =>
              /\ resp.status = 200
              /\ resp.body.uuid = Last(putLog[k]).UUID
              /\ resp.body.timestamp = TimestampFormat(Last(putLog[k]).Timestamp)

\* C7: for a populated key with no Put to the key between the two requests,
\* GET /rules/{key}/latest and GET /rules/{key} return the same uuid and the
\* same timestamp, whatever prunes run in between.
PollsAgree ==
    \A k \in DOMAIN entries :
        (polled[k].latest # NoResponse /\ polled[k].rules # NoResponse) =>
            /\ polled[k].latest.status = 200
            /\ polled[k].rules.status = 200
            /\ polled[k].latest.body.uuid = polled[k].rules.body.uuid
            /\ polled[k].latest.body.timestamp = polled[k].rules.body.timestamp

\* the non-empty keys of the requests
NonEmptyKeys == RequestKeys \ {<<>>}

\* C8: for every non-empty rule-set key that is absent from the cache, GET
\* /rules/{key} and GET /rules/{key}/latest return 404, and no request
\* creates a key or changes the cache.
AbsentKeyNotFound ==
    /\ [](\A k \in NonEmptyKeys \ DOMAIN entries :
            (req \in {Requested("GET", RulesPath(k)), Requested("GET", LatestPath(k))})
                => resp.status = 404)
    /\ [][req' # NoRequest => entries' = entries]_vars

\* both routes asked for a key that is absent while another key is present
AbsentKeyNotFoundWitness ==
    \E k \in Keys :
        /\ k \notin DOMAIN entries
        /\ DOMAIN entries # {}
        /\ req = Requested("GET", LatestPath(k))
        /\ resp.status = 404

\* C9: every GET under /rules/ whose key segment is empty returns 400, in
\* the plain form (GET /rules/) and in the latest form (GET /rules//latest).
EmptyKeyBadRequest ==
    (req \in {Requested("GET", RulesPath(<<>>)), Requested("GET", LatestPath(<<>>))})
        => resp.status = 400

----------------------------------------------------------------------------
(* The cache operations statement by statement, under RuleSetCache.mu *)

\* the goroutines: the RuleSet reconciler (Put), the sweeper (Prune,
\* PruneBySize) and the HTTP handlers (Get)
Reconciler == "reconciler"
Sweeper == "sweeper"
Readers == {"http1", "http2"}
Procs == {Reconciler, Sweeper} \cup Readers

Unlocked == [writer |-> "none", readers |-> {}]

\* variant of CanLock: the writer takes the mutex as a reader would
CanLockShared(m) == m.writer = "none"

\* c.mu.Lock() returns: no writer and no reader holds the mutex
CanLock(m) == m.writer = "none" /\ m.readers = {}

\* c.mu.RLock() returns: no writer holds the mutex
CanRLock(m) == m.writer = "none"

Idle == [instance |-> <<>>]

InitConc ==
    /\ entries = <<>>
    /\ now = 0
    /\ nextUUID = 1
    /\ putLog = [k \in Keys |-> <<>>]
    /\ req = NoRequest
    /\ resp = NoResponse
    /\ polled = [k \in Keys |-> NotPolled]
    /\ mu = Unlocked
    /\ pc = [p \in Procs |-> "idle"]
    /\ local = [p \in Procs |-> Idle]
    /\ committed = <<>>
    /\ NoResources

\* the readers whose Get has been called and has not returned
InGet(r) == pc[r] \in {"lookup", "loop", "runlock"}

\* a writer releases the mutex: its writes become the committed cache, which
\* every Get in flight may from now on return the latest of
Commit(p, next) ==
    /\ mu' = [mu EXCEPT !.writer = "none"]
    /\ committed' = entries
    /\ pc' = [pc EXCEPT ![p] = next]
    /\ local' = [r \in Procs |->
                    IF r = p THEN Idle
                    ELSE IF r \in Readers /\ InGet(r)
                    THEN [local[r] EXCEPT !.candidates =
                              @ \cup {Get(entries, local[r].instance)}]
                    ELSE local[r]]

\* Put: c.mu.Lock()
PutLock(instance, rules) ==
    /\ pc[Reconciler] = "idle"
    /\ nextUUID <= MaxPuts
    /\ CanLock(mu)
    /\ mu' = [mu EXCEPT !.writer = Reconciler]
    /\ local' = [local EXCEPT ![Reconciler] = [instance |-> instance, rules |-> rules]]
    /\ pc' = [pc EXCEPT ![Reconciler] = "new"]
    /\ UNCHANGED <<entries, now, nextUUID, putLog, httpVars, committed, apiVars>>

\* Put: newEntry := &RuleSetEntry{...}
PutNew ==
    /\ pc[Reconciler] = "new"
    /\ local' = [local EXCEPT ![Reconciler] =
                    [instance |-> @.instance,
                     newEntry |-> NewEntry(nextUUID, now, @.rules)]]
    /\ nextUUID' = nextUUID + 1
    /\ pc' = [pc EXCEPT ![Reconciler] = "store"]
    /\ UNCHANGED <<entries, now, putLog, httpVars, mu, committed, apiVars>>

\* Put: the first write of the if statement
PutStore ==
    /\ pc[Reconciler] = "store"
    /\ LET l == local[Reconciler] IN
        /\ putLog' = [putLog EXCEPT ![l.instance] = Append(@, l.newEntry)]
        /\ IF l.instance \notin DOMAIN entries
           THEN /\ entries' = CreateEntries(entries, l.instance, l.newEntry)
                /\ pc' = [pc EXCEPT ![Reconciler] = "unlock"]
           ELSE /\ entries' = AppendEntry(entries, l.instance, l.newEntry)
                /\ pc' = [pc EXCEPT ![Reconciler] = "latest"]
    /\ UNCHANGED <<now, nextUUID, httpVars, mu, local, committed, apiVars>>

\* Put: c.entries[instance].Latest = newEntry.UUID
PutLatest ==
    /\ pc[Reconciler] = "latest"
    /\ entries' = SetLatest(entries, local[Reconciler].instance, local[Reconciler].newEntry)
    /\ pc' = [pc EXCEPT ![Reconciler] = "unlock"]
    /\ UNCHANGED <<now, nextUUID, putLog, httpVars, mu, local, committed, apiVars>>

\* Put: the deferred c.mu.Unlock()
PutUnlock ==
    /\ pc[Reconciler] = "unlock"
    /\ Commit(Reconciler, "idle")
    /\ UNCHANGED <<entries, now, nextUUID, putLog, httpVars, apiVars>>

\* Prune: c.mu.Lock(), the empty-map test and now := time.Now()
PruneLock(maxAge) ==
    /\ pc[Sweeper] = "idle"
    /\ CanLock(mu)
    /\ mu' = [mu EXCEPT !.writer = Sweeper]
    /\ local' = [local EXCEPT ![Sweeper] =
                    [instance |-> <<>>, maxAge |-> maxAge, now |-> now,
                     todo |-> DOMAIN entries]]
    /\ pc' = [pc EXCEPT ![Sweeper] = "prune"]
    /\ UNCHANGED <<entries, now, nextUUID, putLog, httpVars, committed, apiVars>>

\* Prune: one iteration of the loop over the instances
PruneInstance(instance) ==
    /\ pc[Sweeper] = "prune"
    /\ instance \in local[Sweeper].todo
    /\ entries' = [entries EXCEPT ![instance].Entries =
                      PruneEntries(entries[instance], local[Sweeper].maxAge,
                                   local[Sweeper].now)]
    /\ local' = [local EXCEPT ![Sweeper].todo = @ \ {instance}]
    /\ UNCHANGED <<now, nextUUID, putLog, httpVars, mu, pc, committed, apiVars>>

\* Prune: the loop is over; the deferred c.mu.Unlock()
PruneUnlock ==
    /\ pc[Sweeper] = "prune"
    /\ local[Sweeper].todo = {}
    /\ Commit(Sweeper, "idle")
    /\ UNCHANGED <<entries, now, nextUUID, putLog, httpVars, apiVars>>

\* PruneBySize: c.mu.Lock() and the computation of currentSize
SizeLock(maxSize) ==
    /\ pc[Sweeper] = "idle"
    /\ CanLock(mu)
    /\ mu' = [mu EXCEPT !.writer = Sweeper]
    /\ local' = [local EXCEPT ![Sweeper] =
                    [instance |-> <<>>, maxSize |-> maxSize,
                     currentSize |-> TotalSize(entries),
                     todo |-> IF TotalSize(entries) <= maxSize
                              THEN {} ELSE DOMAIN entries]]
    /\ pc' = [pc EXCEPT ![Sweeper] = "size"]
    /\ UNCHANGED <<entries, now, nextUUID, putLog, httpVars, committed, apiVars>>

\* PruneBySize: one iteration of the loop over the instances
SizeInstance(instance) ==
    /\ pc[Sweeper] = "size"
    /\ instance \in local[Sweeper].todo
    /\ local[Sweeper].currentSize > local[Sweeper].maxSize
    /\ LET r == PruneSizeEntries(entries[instance], 1, <<>>,
                                 local[Sweeper].currentSize, local[Sweeper].maxSize)
       IN  /\ entries' = [entries EXCEPT ![instance].Entries = r.kept]
           /\ local' = [local EXCEPT ![Sweeper].todo = @ \ {instance},
                                     ![Sweeper].currentSize = r.size]
    /\ UNCHANGED <<now, nextUUID, putLog, httpVars, mu, pc, committed, apiVars>>

\* PruneBySize: early return, break or end of the loop; the deferred c.mu.Unlock()
SizeUnlock ==
    /\ pc[Sweeper] = "size"
    /\ \/ local[Sweeper].todo = {}
       \/ local[Sweeper].currentSize <= local[Sweeper].maxSize
    /\ Commit(Sweeper, "idle")
    /\ UNCHANGED <<entries, now, nextUUID, putLog, httpVars, apiVars>>

\* Get: c.mu.RLock()
GetRLock(r, instance) ==
    /\ pc[r] = "idle"
    /\ CanRLock(mu)
    /\ mu' = [mu EXCEPT !.readers = @ \cup {r}]
    /\ local' = [local EXCEPT ![r] =
                    [instance |-> instance,
                     candidates |-> {Get(committed, instance)}]]
    /\ pc' = [pc EXCEPT ![r] = "lookup"]
    /\ UNCHANGED <<entries, now, nextUUID, putLog, httpVars, committed, apiVars>>

\* Get: entries, ok := c.entries[instance] and the test of ok and len; the
\* range statement evaluates entries.Entries once
GetLookup(r) ==
    /\ pc[r] = "lookup"
    /\ LET l == local[r] IN
       IF l.instance \notin DOMAIN entries \/ Len(entries[l.instance].Entries) = 0
       THEN /\ local' = [local EXCEPT ![r] =
                            [instance |-> l.instance, candidates |-> l.candidates,
                             result |-> NotFound]]
            /\ pc' = [pc EXCEPT ![r] = "runlock"]
       ELSE /\ local' = [local EXCEPT ![r] =
                            [instance |-> l.instance, candidates |-> l.candidates,
                             es |-> entries[l.instance].Entries, i |-> 1]]
            /\ pc' = [pc EXCEPT ![r] = "loop"]
    /\ UNCHANGED <<entries, now, nextUUID, putLog, httpVars, mu, committed, apiVars>>

\* Get: one iteration of the loop, or its end
GetLoop(r) ==
    /\ pc[r] = "loop"
    /\ LET l == local[r] IN
       IF l.i > Len(l.es)
       THEN /\ local' = [local EXCEPT ![r] =
                            [instance |-> l.instance, candidates |-> l.candidates,
                             result |-> NotFound]]
            /\ pc' = [pc EXCEPT ![r] = "runlock"]
       ELSE IF l.es[l.i].UUID = entries[l.instance].Latest
       THEN /\ local' = [local EXCEPT ![r] =
                            [instance |-> l.instance, candidates |-> l.candidates,
                             result |-> Found(l.es[l.i])]]
            /\ pc' = [pc EXCEPT ![r] = "runlock"]
       ELSE /\ local' = [local EXCEPT ![r].i = @ + 1]
            /\ UNCHANGED pc
    /\ UNCHANGED <<entries, now, nextUUID, putLog, httpVars, mu, committed, apiVars>>

\* Get: the deferred c.mu.RUnlock() and the return
GetRUnlock(r) ==
    /\ pc[r] = "runlock"
    /\ mu' = [mu EXCEPT !.readers = @ \ {r}]
    /\ local' = [local EXCEPT ![r] = Idle]
    /\ pc' = [pc EXCEPT ![r] = "idle"]
    /\ UNCHANGED <<entries, now, nextUUID, putLog, httpVars, committed, apiVars>>

NextConc ==
    \/ Tick
    \/ \E instance \in Keys, rules \in Blobs : PutLock(instance, rules)
    \/ PutNew
    \/ PutStore
    \/ PutLatest
    \/ PutUnlock
    \/ \E maxAge \in MaxAges : PruneLock(maxAge)
    \/ \E instance \in Keys : PruneInstance(instance)
    \/ PruneUnlock
    \/ \E maxSize \in MaxSizes : SizeLock(maxSize)
    \/ \E instance \in Keys : SizeInstance(instance)
    \/ SizeUnlock
    \/ \E r \in Readers, instance \in Keys : GetRLock(r, instance)
    \/ \E r \in Readers : GetLookup(r)
    \/ \E r \in Readers : GetLoop(r)
    \/ \E r \in Readers : GetRUnlock(r)

SpecConc == InitConc /\ [][NextConc]_vars

\* the latest entry of the key after the Put in flight, if it is to that key
AfterPutInFlight(instance) ==
    IF /\ pc[Reconciler] \in {"store", "latest", "unlock"}
       /\ local[Reconciler].instance = instance
    THEN {Found(local[Reconciler].newEntry)}
    ELSE {}

\* what a Get in flight may return: the latest of the key in a cache that was
\* committed since the Get was called, or after the Put that overlaps it
Acceptable(r) == local[r].candidates \cup AfterPutInFlight(local[r].instance)

\* C3: Put and Get on the same key are atomic with respect to each other.  A
\* Get that runs concurrently with Puts and prunes returns the latest entry
\* of the cache as it was before or after one of the writes that overlap it,
\* never a torn intermediate (an entry that is not the latest of either, or
\* absent for a key that was present).
GetAtomic ==
    \A r \in Readers :
        pc[r] = "runlock" => local[r].result \in Acceptable(r)

\* two Gets hold the mutex together and one has found the latest of a key
\* with more than one version
GetAtomicWitness ==
    \E r \in Readers :
        /\ pc[r] = "runlock"
        /\ local[r].result.ok
        /\ Len(entries[local[r].instance].Entries) >= 2
        /\ mu.readers = Readers

----------------------------------------------------------------------------
(* The RuleSet controller: API objects, status conditions and Reconcile.   *)
(* The API server is taken to accept the status patches of the reconciler  *)
(* and to answer its Get of the RuleSet; a Get of a ConfigMap can fail.    *)

\* types.NamespacedName, the content of a ctrl.Request
NamespacedName(ns, name) == [Namespace |-> ns, Name |-> name]

\* the requests the reconciler is called with
RuleSetRequests == {NamespacedName(ns, name) : ns \in Namespaces, name \in Names}

\* the names of the ConfigMaps, all in the namespace of the RuleSets
ConfigMapNames == {"c1", "c2"}

\* a RuleSourceReference of spec.rules
RuleSource(kind, name) == [Kind |-> kind, Name |-> name]

\* the only kind Reconcile accepts
ConfigMapKind == "ConfigMap"

\* the rule sources explored: the two ConfigMaps and a source of another kind
Sources ==
    {RuleSource(ConfigMapKind, name) : name \in ConfigMapNames}
        \cup {RuleSource("Secret", "c1")}

\* the values of spec.rules explored: one or two sources, repetitions included
RuleLists == {<<s>> : s \in Sources} \cup {<<s, t>> : s \in Sources, t \in Sources}

\* the key of ConfigMap.Data that holds the rules
RulesDataKey == "rules"

\* the separator Reconcile writes between two rule texts
Newline == "\n"

\* the values of ConfigMap.Data explored: another key only, the rules key,
\* the rules key and another key
ConfigMapData ==
    { "other" :> <<"x">>,
      RulesDataKey :> <<"x">>,
      (RulesDataKey :> <<"y">>) @@ ("other" :> <<"x">>) }

\* a RuleSet as created: generation 1 and no status condition
NewRuleSet(rules) == [Generation |-> 1, Rules |-> rules, Conditions |-> <<>>]

\* error values (nil is NoError)
NoError == <<>>
UnsupportedKindError(kind) == <<"unsupported rule kind: ", kind>>
\* variant of MissingRulesKeyError: the error does not say what is missing
MissingRulesKeyErrorUnnamed(name) == <<"invalid ConfigMap">>
MissingRulesKeyError(name) == <<"ConfigMap ", name, " missing 'rules' key">>
AccessError == <<"the API server failed the request">>

\* ctrl.Result{} and ctrl.Result{Requeue: true}, with the error returned
Result(requeue, err) == [Requeue |-> requeue, err |-> err]

\* a recorded event
Event(type, reason) == [Type |-> type, Reason |-> reason]

\* variant of SetStatusCondition: a condition that exists keeps the
\* generation it was observed at
SetStatusConditionKeepGeneration(conditions, type, status, generation, reason) ==
    (type :> [Status |-> status,
              ObservedGeneration |-> IF type \in DOMAIN conditions
                                     THEN conditions[type].ObservedGeneration
                                     ELSE generation,
              Reason |-> reason])
        @@ conditions

\* apimeta.SetStatusCondition
SetStatusCondition(conditions, type, status, generation, reason) ==
    (type :> [Status |-> status, ObservedGeneration |-> generation, Reason |-> reason])
        @@ conditions

\* apimeta.RemoveStatusCondition
RemoveStatusCondition(conditions, type) ==
    [t \in DOMAIN conditions \ {type} |-> conditions[t]]

setConditionTrue(conditions, generation, type, reason) ==
    SetStatusCondition(conditions, type, "True", generation, reason)

setConditionFalse(conditions, generation, type, reason) ==
    SetStatusCondition(conditions, type, "False", generation, reason)

\* variant of setStatusReady: Progressing is left in place
setStatusReadyKeepProgressing(conditions, generation, reason) ==
    RemoveStatusCondition(
        setConditionTrue(conditions, generation, "Ready", reason),
        "Degraded")

\* Ready=True; Degraded and Progressing removed
setStatusReady(conditions, generation, reason) ==
    RemoveStatusCondition(
        RemoveStatusCondition(
            setConditionTrue(conditions, generation, "Ready", reason),
            "Degraded"),
        "Progressing")

\* Ready=False and Progressing=True; Degraded left as it is
setStatusProgressing(conditions, generation, reason) ==
    setConditionTrue(
        setConditionFalse(conditions, generation, "Ready", reason),
        generation, "Progressing", reason)

\* variant of setStatusConditionDegraded: Progressing is left in place
setStatusConditionDegradedKeepProgressing(conditions, generation, reason) ==
    setConditionTrue(
        setConditionFalse(conditions, generation, "Ready", reason),
        generation, "Degraded", reason)

\* Ready=False and Degraded=True; Progressing removed
setStatusConditionDegraded(conditions, generation, reason) ==
    RemoveStatusCondition(
        setConditionTrue(
            setConditionFalse(conditions, generation, "Ready", reason),
            generation, "Degraded", reason),
        "Progressing")

\* r.Get of the ConfigMap name in namespace ns; the Gets of the names in
\* failing are failed by the API server for another reason than not-found
GetConfigMap(cms, failing, ns, name) ==
    IF name \in failing THEN [err |-> "AccessError"]
    ELSE IF NamespacedName(ns, name) \notin DOMAIN cms THEN [err |-> "NotFound"]
    ELSE [err |-> "nil", Data |-> cms[NamespacedName(ns, name)]]

\* how the loop over spec.rules ends when a source fails
Failed(reason, requeue, err) ==
    [ok |-> FALSE, reason |-> reason, result |-> Result(requeue, err)]

\* how the loop over spec.rules ends when every source was read
Aggregated(aggregatedRules) ==
    [ok |-> TRUE, reason |-> "RulesCached", result |-> Result(FALSE, NoError),
     aggregatedRules |-> aggregatedRules]

\* variant of WriteSource: every rule text is terminated by a newline
WriteSourceTerminated(aggregatedRules, data, i, n) ==
    aggregatedRules \o data \o <<Newline>>

\* aggregatedRules.WriteString(data), and the newline unless i is the last index
WriteSource(aggregatedRules, data, i, n) ==
    aggregatedRules \o data \o (IF i < n THEN <<Newline>> ELSE <<>>)

RECURSIVE AggregateSkipping(_, _, _, _, _, _)
\* variant of Aggregate: a ConfigMap without the rules key is skipped
AggregateSkipping(rules, cms, failing, ns, i, aggregatedRules) ==
    IF i > Len(rules) THEN Aggregated(aggregatedRules)
    ELSE IF rules[i].Kind # ConfigMapKind
    THEN Failed("InvalidConfiguration", FALSE, UnsupportedKindError(rules[i].Kind))
    ELSE LET got == GetConfigMap(cms, failing, ns, rules[i].Name) IN
        IF got.err = "NotFound" THEN Failed("ConfigMapNotFound", TRUE, NoError)
        ELSE IF got.err # "nil" THEN Failed("ConfigMapAccessError", FALSE, AccessError)
        ELSE IF RulesDataKey \notin DOMAIN got.Data
        THEN AggregateSkipping(rules, cms, failing, ns, i + 1, aggregatedRules)
        ELSE AggregateSkipping(rules, cms, failing, ns, i + 1,
                               WriteSource(aggregatedRules, got.Data[RulesDataKey],
                                           i, Len(rules)))

RECURSIVE Aggregate(_, _, _, _, _, _)
\* the loop of Reconcile over spec.rules, from index i on (i counts from 1)
Aggregate(rules, cms, failing, ns, i, aggregatedRules) ==
    IF i > Len(rules) THEN Aggregated(aggregatedRules)
    ELSE IF rules[i].Kind # ConfigMapKind
    THEN Failed("InvalidConfiguration", FALSE, UnsupportedKindError(rules[i].Kind))
    ELSE LET got == GetConfigMap(cms, failing, ns, rules[i].Name) IN
        IF got.err = "NotFound" THEN Failed("ConfigMapNotFound", TRUE, NoError)
        ELSE IF got.err # "nil" THEN Failed("ConfigMapAccessError", FALSE, AccessError)
        ELSE IF RulesDataKey \notin DOMAIN got.Data
        THEN Failed("InvalidConfigMap", FALSE, MissingRulesKeyError(rules[i].Name))
        ELSE Aggregate(rules, cms, failing, ns, i + 1,
                       WriteSource(aggregatedRules, got.Data[RulesDataKey],
                                   i, Len(rules)))

\* the conditions after the first step of Reconcile: Progressing, if the
\* RuleSet has no Ready condition yet
InitialStatus(ruleset) ==
    IF "Ready" \notin DOMAIN ruleset.Conditions
    THEN setStatusProgressing(ruleset.Conditions, ruleset.Generation, "Reconciling")
    ELSE ruleset.Conditions

\* the history record of a Reconcile call: its request, the Gets that the API
\* server failed, the number of uuid.New() calls before it, and what it did
Reconciled(request, failing, found, outcome, events, puts) ==
    [request |-> request, failing |-> failing, uuids |-> nextUUID,
     found |-> found, ok |-> outcome.ok,
     reason |-> outcome.reason, result |-> outcome.result,
     events |-> events, puts |-> puts]

\* Reconcile of a request whose RuleSet does not exist
ReconcileAbsent(request, failing) ==
    /\ request \notin DOMAIN rulesets
    /\ reconciled' = Reconciled(request, failing, FALSE,
                                [ok |-> TRUE, reason |-> "NotFound",
                                 result |-> Result(FALSE, NoError)],
                                <<>>, <<>>)
    /\ UNCHANGED <<entries, now, nextUUID, putLog, httpVars, procVars,
                   rulesets, configmaps, edits, engineVars, stamps>>

\* Reconcile of a RuleSet one of whose sources fails: event, Degraded, return
ReconcileFailed(request, failing, outcome) ==
    /\ ~outcome.ok
    /\ rulesets' = [rulesets EXCEPT ![request].Conditions =
                       setStatusConditionDegraded(InitialStatus(rulesets[request]),
                                                  rulesets[request].Generation,
                                                  outcome.reason)]
    /\ reconciled' = Reconciled(request, failing, TRUE, outcome,
                                <<Event("Warning", outcome.reason)>>, <<>>)
    /\ UNCHANGED <<entries, now, nextUUID, putLog, httpVars, procVars,
                   configmaps, edits, engineVars, stamps>>

\* Reconcile of a RuleSet whose sources were all read: Put, event, Ready
ReconcileCached(request, failing, outcome) ==
    /\ outcome.ok
    /\ LET cacheKey == CacheKey(request.Namespace, request.Name) IN
        /\ CachePut(cacheKey, outcome.aggregatedRules)
        /\ reconciled' = Reconciled(request, failing, TRUE, outcome,
                                    <<Event("Normal", "RulesCached")>>, <<cacheKey>>)
    /\ rulesets' = [rulesets EXCEPT ![request].Conditions =
                       setStatusReady(InitialStatus(rulesets[request]),
                                      rulesets[request].Generation,
                                      "RulesCached")]
    /\ UNCHANGED <<configmaps, edits, engineVars, stamps>>

\* RuleSetReconciler.Reconcile(ctx, req), without the work queue
ReconcileRuleSet(request, failing) ==
    IF request \notin DOMAIN rulesets
    THEN ReconcileAbsent(request, failing)
    ELSE LET outcome == Aggregate(rulesets[request].Rules, configmaps, failing,
                                  request.Namespace, 1, <<>>)
         IN  IF outcome.ok
             THEN ReconcileCached(request, failing, outcome)
             ELSE ReconcileFailed(request, failing, outcome)

\* a call of Reconcile, as the tests of the reconciler make it
Reconcile(request, failing) ==
    /\ ReconcileRuleSet(request, failing)
    /\ UNCHANGED watchVars

\* a ConfigMap is created or updated
ApplyConfigMap(ns, name, data) ==
    /\ edits < MaxEdits
    /\ edits' = edits + 1
    /\ IF NamespacedName(ns, name) \in DOMAIN configmaps
       THEN configmaps[NamespacedName(ns, name)] # data
       ELSE TRUE
    /\ configmaps' = (NamespacedName(ns, name) :> data) @@ configmaps

\* a ConfigMap is deleted
DeleteConfigMap(ns, name) ==
    /\ edits < MaxEdits
    /\ edits' = edits + 1
    /\ NamespacedName(ns, name) \in DOMAIN configmaps
    /\ configmaps' = [k \in DOMAIN configmaps \ {NamespacedName(ns, name)} |->
                         configmaps[k]]

\* the ConfigMaps change and nobody watches
EditConfigMap(ns, name) ==
    /\ \/ \E data \in ConfigMapData : ApplyConfigMap(ns, name, data)
       \/ DeleteConfigMap(ns, name)
    /\ reconciled' = NoReconcile
    /\ UNCHANGED <<entries, now, nextUUID, putLog, httpVars, procVars,
                   rulesets, watchVars, engineVars, stamps>>

\* the API objects the reconciler is explored with
ConfigMapStates ==
    UNION {[{NamespacedName(ns, name) : ns \in Namespaces, name \in names}
               -> ConfigMapData] : names \in SUBSET ConfigMapNames}

\* no RuleSet, or one RuleSet with any of the rule lists
RuleSetStates ==
    {<<>>} \cup {request :> NewRuleSet(rules) :
                     request \in RuleSetRequests, rules \in RuleLists}

\* the cache is empty; any RuleSets and ConfigMaps exist
InitReconcile ==
    /\ NoEngines
    /\ entries = <<>>
    /\ now = 0
    /\ nextUUID = 1
    /\ putLog = [k \in Keys |-> <<>>]
    /\ req = NoRequest
    /\ resp = NoResponse
    /\ mu = [writer |-> "none", readers |-> {}]
    /\ pc = <<>>
    /\ local = <<>>
    /\ committed = <<>>
    /\ polled = [k \in Keys |-> NotPolled]
    /\ rulesets \in RuleSetStates
    /\ configmaps \in ConfigMapStates
    /\ queue = {}
    /\ mapped = NoEvent
    /\ reconciled = NoReconcile
    /\ edits = 0

\* the Gets the API server fails during one Reconcile: none, or those of one name
FailingGets == {{}} \cup {{name} : name \in ConfigMapNames}

NextReconcile ==
    \/ \E request \in RuleSetRequests, failing \in FailingGets :
          Reconcile(request, failing)
    \/ \E ns \in Namespaces, name \in ConfigMapNames : EditConfigMap(ns, name)

SpecReconcile == InitReconcile /\ [][NextReconcile]_vars

----------------------------------------------------------------------------
(* Properties of Reconcile *)

\* what the i-th rule source of a RuleSet is to a Reconcile call: of a kind
\* other than ConfigMap, a ConfigMap whose Get the API server fails, a
\* ConfigMap that does not exist, one without the rules key, or resolved
SourceStatus(request, failing, i) ==
    LET rule == rulesets[request].Rules[i]
        cm == NamespacedName(request.Namespace, rule.Name)
    IN  IF rule.Kind # "ConfigMap" THEN "unsupported"
        ELSE IF rule.Name \in failing THEN "unreadable"
        ELSE IF cm \notin DOMAIN configmaps THEN "missing"
        ELSE IF "rules" \notin DOMAIN configmaps[cm] THEN "norules"
        ELSE "resolved"

EverySourceResolves(request, failing) ==
    /\ request \in DOMAIN rulesets
    /\ \A i \in 1..Len(rulesets[request].Rules) :
          SourceStatus(request, failing, i) = "resolved"

\* the first source that does not resolve is the i-th and has this status
FirstFailure(request, failing, i, status) ==
    /\ request \in DOMAIN rulesets
    /\ i \in 1..Len(rulesets[request].Rules)
    /\ SourceStatus(request, failing, i) = status
    /\ \A j \in 1..(i - 1) : SourceStatus(request, failing, j) = "resolved"

\* the last step was a Reconcile of an existing RuleSet
ReconciledRuleSet ==
    /\ reconciled # NoReconcile
    /\ reconciled.request \in DOMAIN rulesets

\* the last step was a Reconcile in which every source resolved
ReconciledResolved ==
    /\ reconciled # NoReconcile
    /\ EverySourceResolves(reconciled.request, reconciled.failing)

\* the last step was a Reconcile whose first failing source has this status
ReconciledFailure(status) ==
    /\ reconciled # NoReconcile
    /\ \E i \in 1..2 :
          FirstFailure(reconciled.request, reconciled.failing, i, status)

\* the rule texts of the ConfigMaps a RuleSet references, in spec.rules order
RuleTexts(request) ==
    [i \in 1..Len(rulesets[request].Rules) |->
        configmaps[NamespacedName(request.Namespace,
                                  rulesets[request].Rules[i].Name)]["rules"]]

RECURSIVE JoinLines(_)
\* the texts with one newline between adjacent texts and none at the end
JoinLines(texts) ==
    IF Len(texts) = 0 THEN <<>>
    ELSE IF Len(texts) = 1 THEN texts[1]
    ELSE texts[1] \o <<"\n">> \o JoinLines(Tail(texts))

\* the key namespace/name of the RuleSet of the last Reconcile
ReconciledKey == <<reconciled.request.Namespace, "/", reconciled.request.Name>>

\* the conditions of the RuleSet of the last Reconcile
ReconciledConditions == rulesets[reconciled.request].Conditions

\* C11: aggregation.  After the reconcile of a RuleSet whose spec.rules
\* references ConfigMaps c1..cn that all exist and carry the rules key, the
\* blob that Get returns for namespace/name is rules(c1) \n ... \n rules(cn),
\* in spec.rules order, with one newline between adjacent texts and none at
\* the end (rules(c1) itself when n = 1).
AggregationInOrder ==
    ReconciledResolved =>
        LET got == Get(entries, ReconciledKey) IN
            /\ got.ok
            /\ got.entry.Rules = JoinLines(RuleTexts(reconciled.request))

\* two different ConfigMaps were aggregated, the second text first
AggregationInOrderWitness ==
    /\ ReconciledResolved
    /\ Len(rulesets[reconciled.request].Rules) = 2
    /\ Get(entries, ReconciledKey) = Found([UUID |-> 1, Timestamp |-> 0,
                                            Rules |-> <<"y", "\n", "x">>])

NoPutOnFailure ==
    [][\A request \in RuleSetRequests, failing \in FailingGets :
          ( /\ request \in DOMAIN rulesets
            /\ ~EverySourceResolves(request, failing)
            /\ Reconcile(request, failing) )
          => /\ entries' = entries
             /\ putLog' = putLog
             /\ nextUUID' = nextUUID]_vars

\* a published RuleSet was reconciled again and its last source failed
NoPutOnFailureWitness ==
    /\ ReconciledRuleSet
    /\ \E status \in {"unsupported", "unreadable", "missing", "norules"} :
          FirstFailure(reconciled.request, reconciled.failing, 2, status)
    /\ Get(entries, ReconciledKey).ok

\* the conditions, the event and the result of a reconcile that failed with
\* this reason
Degraded(reason, result) ==
    /\ DOMAIN ReconciledConditions = {"Ready", "Degraded"}
    /\ ReconciledConditions["Degraded"].Status = "True"
    /\ ReconciledConditions["Degraded"].Reason = reason
    /\ ReconciledConditions["Ready"].Status = "False"
    /\ ReconciledConditions["Ready"].Reason = reason
    /\ reconciled.events = <<[Type |-> "Warning", Reason |-> reason]>>
    /\ reconciled.result = result

----------------------------------------------------------------------------
(* The ConfigMap watch of the RuleSet controller *)

\* the namespaces of the watched objects
WatchedNamespaces == {"a", "b"}

\* the values of spec.rules the mapping is explored with
WatchedRuleLists ==
    { <<RuleSource(ConfigMapKind, "c1")>>,
      <<RuleSource(ConfigMapKind, "c2")>>,
      <<RuleSource(ConfigMapKind, "c1"), RuleSource(ConfigMapKind, "c1")>>,
      <<RuleSource(ConfigMapKind, "c2"), RuleSource(ConfigMapKind, "c1")>>,
      <<RuleSource("Secret", "c1")>> }

WatchedRequests ==
    {NamespacedName(ns, name) : ns \in WatchedNamespaces, name \in Names}

\* the outcomes of r.List(ctx, &ruleSetList, client.InNamespace(ns)): an
\* error, or the RuleSets of the namespace in any order
ListRuleSets(rss, ns) ==
    LET items == {request \in DOMAIN rss : request.Namespace = ns} IN
        {[err |-> TRUE, Items |-> <<>>]}
            \cup {[err |-> FALSE, Items |-> o] :
                      o \in {o \in [1..Cardinality(items) -> items] :
                                \A i, j \in DOMAIN o : i # j => o[i] # o[j]}}

RECURSIVE AppendEveryReference(_, _, _, _, _)
\* variant of AppendIfReferenced: the loop over the rules goes on after a match
AppendEveryReference(requests, rules, request, name, j) ==
    IF j > Len(rules) THEN requests
    ELSE IF rules[j].Name = name
    THEN AppendEveryReference(Append(requests, request), rules, request, name, j + 1)
    ELSE AppendEveryReference(requests, rules, request, name, j + 1)

RECURSIVE AppendIfReferenced(_, _, _, _, _)
\* the inner loop of findRuleSetsForConfigMap over the rules of one RuleSet,
\* from index j on: the request is appended at the first rule with the name
\* of the ConfigMap, and the loop is left
AppendIfReferenced(requests, rules, request, name, j) ==
    IF j > Len(rules) THEN requests
    ELSE IF rules[j].Name = name THEN Append(requests, request)
    ELSE AppendIfReferenced(requests, rules, request, name, j + 1)

RECURSIVE MapItems(_, _, _, _, _)
\* the outer loop of findRuleSetsForConfigMap over ruleSetList.Items
MapItems(rss, items, name, i, requests) ==
    IF i > Len(items) THEN requests
    ELSE MapItems(rss, items, name, i + 1,
                  AppendIfReferenced(requests, rss[items[i]].Rules, items[i], name, 1))

\* findRuleSetsForConfigMap(ctx, configMap), given the outcome of r.List:
\* nil when the List failed
findRuleSetsForConfigMap(rss, list, configMap) ==
    IF list.err THEN <<>>
    ELSE MapItems(rss, list.Items, configMap.Name, 1, <<>>)

\* the elements of a sequence
Range(seq) == {seq[i] : i \in DOMAIN seq}

\* a ConfigMap event reaches the watch set up by SetupWithManager: the map
\* function runs and every request it returns is added to the work queue
EnqueueRequestsFromMapFunc(ns, name) ==
    \E list \in ListRuleSets(rulesets, ns) :
          LET requests == findRuleSetsForConfigMap(rulesets, list,
                                                   NamespacedName(ns, name))
          IN  /\ mapped' = [configMap |-> NamespacedName(ns, name),
                            listed |-> ~list.err, uuids |-> nextUUID,
                            requests |-> requests]
              /\ queue' = queue \cup Range(requests)

\* an event of a ConfigMap, the API objects being what they are
ConfigMapEvent(ns, name) ==
    /\ EnqueueRequestsFromMapFunc(ns, name)
    /\ UNCHANGED <<entries, now, nextUUID, putLog, httpVars, procVars,
                   rulesets, configmaps, reconciled, edits, engineVars, stamps>>

\* any RuleSets exist in the two namespaces
WatchedRuleSetStates ==
    UNION {[requests -> {NewRuleSet(rules) : rules \in WatchedRuleLists}] :
               requests \in SUBSET WatchedRequests}

InitWatch ==
    /\ NoEngines
    /\ entries = <<>>
    /\ now = 0
    /\ nextUUID = 1
    /\ putLog = [k \in Keys |-> <<>>]
    /\ req = NoRequest
    /\ resp = NoResponse
    /\ mu = [writer |-> "none", readers |-> {}]
    /\ pc = <<>>
    /\ local = <<>>
    /\ committed = <<>>
    /\ polled = [k \in Keys |-> NotPolled]
    /\ rulesets \in WatchedRuleSetStates
    /\ configmaps = <<>>
    /\ queue = {}
    /\ mapped = NoEvent
    /\ reconciled = NoReconcile
    /\ edits = 0

NextWatch ==
    \E ns \in WatchedNamespaces, name \in ConfigMapNames : ConfigMapEvent(ns, name)

SpecWatch == InitWatch /\ [][NextWatch]_vars

\* how many times a request occurs in the requests of the map function
Occurrences(requests, request) ==
    Cardinality({i \in DOMAIN requests : requests[i] = request})

\* the RuleSet is in the namespace of the ConfigMap and names it in spec.rules
ReferencesConfigMap(request, configMap) ==
    /\ request \in DOMAIN rulesets
    /\ request.Namespace = configMap.Namespace
    /\ \E i \in 1..Len(rulesets[request].Rules) :
          rulesets[request].Rules[i].Name = configMap.Name

\* the requests of the last event are one for each RuleSet that references
\* the ConfigMap and none for another RuleSet, and they are in the work queue
ExactRequests ==
    /\ \A request \in WatchedRequests :
          Occurrences(mapped.requests, request) =
              IF ReferencesConfigMap(request, mapped.configMap) THEN 1 ELSE 0
    /\ Range(mapped.requests) \subseteq queue

\* C17: for a changed ConfigMap C in namespace N the map function returns
\* exactly one request for each RuleSet in N whose spec.rules has an entry
\* named C (also when it has more than one) and none for any other RuleSet
\* (in another namespace, or in N without such an entry); no referencing
\* RuleSet is skipped.
MapsReferencingRuleSets == mapped # NoEvent => ExactRequests

\* the mapping is exact whenever the List of the RuleSets succeeded
MapsListedRuleSets == (mapped # NoEvent /\ mapped.listed) => ExactRequests

\* c1 of namespace a changed: a/a names it twice, a/latest names it once,
\* b/a names it from another namespace and b/latest does not exist
MapsListedRuleSetsWitness ==
    /\ mapped # NoEvent
    /\ mapped.listed
    /\ mapped.configMap = NamespacedName("a", "c1")
    /\ DOMAIN rulesets = WatchedRequests \ {NamespacedName("b", "latest")}
    /\ Len(rulesets[NamespacedName("a", "a")].Rules) = 2
    /\ ReferencesConfigMap(NamespacedName("a", "a"), mapped.configMap)
    /\ ReferencesConfigMap(NamespacedName("a", "latest"), mapped.configMap)
    /\ rulesets[NamespacedName("b", "a")].Rules = <<RuleSource(ConfigMapKind, "c1")>>
    /\ Len(mapped.requests) = 2

----------------------------------------------------------------------------
(* The RuleSet controller at work: ConfigMaps change, the watch enqueues   *)
(* requests and the worker reconciles them.  The API server answers every  *)
(* Get of the worker.                                                      *)

\* a ConfigMap is created, updated or deleted and the watch sees the event
ChangeConfigMap(ns, name) ==
    /\ \/ \E data \in ConfigMapData : ApplyConfigMap(ns, name, data)
       \/ DeleteConfigMap(ns, name)
    /\ EnqueueRequestsFromMapFunc(ns, name)
    /\ reconciled' = NoReconcile
    /\ UNCHANGED <<entries, now, nextUUID, putLog, httpVars, procVars, rulesets,
                   engineVars, stamps>>

\* variant of GenerationChangedPredicate: every update event passes
AnyUpdatePredicate(old, new) == TRUE

\* predicate.GenerationChangedPredicate, on the update event of an object
GenerationChangedPredicate(old, new) == old.Generation # new.Generation

\* the requests that the status writes of a Reconcile enqueue: each write
\* that changes the RuleSet is an update event of the For(RuleSet) watch
StatusUpdateRequests(request) ==
    IF /\ request \in DOMAIN rulesets
       /\ rulesets'[request] # rulesets[request]
       /\ GenerationChangedPredicate(rulesets[request], rulesets'[request])
    THEN {request}
    ELSE {}

\* the worker takes a request from the queue and calls Reconcile; the request
\* is added again (rate limited) when Reconcile returns an error or Requeue
ProcessWorkItem(request, failing) ==
    /\ request \in queue
    /\ ReconcileRuleSet(request, failing)
    /\ queue' = IF reconciled'.result.Requeue \/ reconciled'.result.err # NoError
                THEN queue
                ELSE (queue \ {request}) \cup StatusUpdateRequests(request)
    /\ UNCHANGED mapped

\* the worker at work while the API server answers every Get
ProcessNextWorkItem(request) == ProcessWorkItem(request, {})

\* the controller starts with an empty cache and a request for every RuleSet
InitController ==
    /\ NoEngines
    /\ entries = <<>>
    /\ now = 0
    /\ nextUUID = 1
    /\ putLog = [k \in Keys |-> <<>>]
    /\ req = NoRequest
    /\ resp = NoResponse
    /\ mu = [writer |-> "none", readers |-> {}]
    /\ pc = <<>>
    /\ local = <<>>
    /\ committed = <<>>
    /\ polled = [k \in Keys |-> NotPolled]
    /\ rulesets \in RuleSetStates
    /\ configmaps \in ConfigMapStates
    /\ queue = DOMAIN rulesets
    /\ mapped = NoEvent
    /\ reconciled = NoReconcile
    /\ edits = 0

Work == \E request \in RuleSetRequests : ProcessNextWorkItem(request)

NextController ==
    \/ \E ns \in Namespaces, name \in ConfigMapNames : ChangeConfigMap(ns, name)
    \/ Work

\* the worker keeps taking requests from the queue
SpecController == InitController /\ [][NextController]_vars /\ WF_vars(Work)

\* a ConfigMap that the RuleSet references has changed and every source of
\* the RuleSet is valid
Changed(request) ==
    /\ mapped # NoEvent
    /\ ReferencesConfigMap(request, mapped.configMap)
    /\ EverySourceResolves(request, {})

\* the latest entry of namespace/name was Put after the change, its rules
\* are the aggregation of the current ConfigMaps, and GET /rules/namespace/name
\* returns it
Propagated(request) ==
    LET key == <<request.Namespace, "/", request.Name>>
        got == Get(entries, key)
    IN  /\ mapped # NoEvent
        /\ EverySourceResolves(request, {})
        /\ got.ok
        /\ got.entry.UUID >= mapped.uuids
        /\ got.entry.Rules = JoinLines(RuleTexts(request))
        /\ handleRules(entries, "GET", <<"/", "rules", "/">> \o key)
               = [status |-> 200,
                  body |-> [uuid |-> got.entry.UUID,
                            timestamp |-> MarshalTime(got.entry.Timestamp),
                            rules |-> got.entry.Rules]]

\* C16: change propagation.  If a ConfigMap referenced by a RuleSet changes
\* and afterwards every source of the RuleSet is valid then, the worker being
\* scheduled fairly, eventually the latest cache entry of namespace/name has a
\* new version id and the aggregation of the current ConfigMaps as its rules,
\* and GET /rules/namespace/name returns those rules.
ChangePropagates ==
    \A request \in RuleSetRequests : Changed(request) ~> Propagated(request)

\* the change is propagated when the map function could list the RuleSets
\* and the RuleSet is not named latest
ListedChangePropagates ==
    \A request \in RuleSetRequests :
        (Changed(request) /\ mapped.listed /\ request.Name # "latest")
            ~> Propagated(request)

----------------------------------------------------------------------------
(* What Prune and PruneBySize remove and return *)

\* the version ids in a history
UUIDs(es) == {es[i].UUID : i \in DOMAIN es}

\* the number of entries that a step removes from the cache
Removed ==
    Cardinality(UNION {UUIDs(entries[k].Entries) : k \in DOMAIN entries})
        - Cardinality(UNION {UUIDs(entries'[k].Entries) : k \in DOMAIN entries'})

\* the entries of a history other than the latest, in order
NonLatest(h) == SelectSeq(h.Entries, LAMBDA e : e.UUID # h.Latest)

\* C19: Prune(maxAge) removes exactly the non-latest entries whose age is
\* strictly greater than maxAge, in every key: the entries of age at most
\* maxAge and the latest entry of every key are kept, in order; the value
\* returned is the number of entries removed, and 0 on an empty cache.
PruneExact ==
    [][\A maxAge \in MaxAges :
          Prune(maxAge) =>
              /\ DOMAIN entries' = DOMAIN entries
              /\ \A k \in DOMAIN entries :
                    /\ entries'[k].Latest = entries[k].Latest
                    /\ IsSubseq(entries'[k].Entries, entries[k].Entries)
                    /\ \A i \in 1..Len(entries[k].Entries) :
                          LET e == entries[k].Entries[i] IN
                              e.UUID \in UUIDs(entries'[k].Entries)
                                  <=> \/ e.UUID = entries[k].Latest
                                      \/ now - e.Timestamp <= maxAge
              /\ PruneReturn(entries, maxAge, now) = Removed
              /\ entries = <<>> => PruneReturn(entries, maxAge, now) = 0]_vars

\* of three versions of a key, Put at times 0, 1 and 1, the first is gone:
\* Prune(0) at time 1 removes it and keeps the second, whose age is 0
PruneExactWitness ==
    \E k \in DOMAIN entries :
        /\ Len(putLog[k]) = 3
        /\ putLog[k][1].Timestamp = 0
        /\ putLog[k][2].Timestamp = 1
        /\ now = 1
        /\ entries[k].Entries = <<putLog[k][2], putLog[k][3]>>

\* C20: PruneBySize(maxSize) returns 0 and removes nothing when the total
\* size is at most maxSize; otherwise it removes only non-latest entries, the
\* oldest first within a key, and only while the total size still exceeds
\* maxSize; when it returns, the total size is at most maxSize or no
\* non-latest entry remains in any key; the value returned is the number of
\* entries removed.
PruneBySizeExact ==
    [][\A maxSize \in MaxSizes :
          ( /\ <<now, nextUUID, putLog>>' = <<now, nextUUID, putLog>>
            /\ PruneBySize(maxSize) )
          => /\ TotalSize(entries) <= maxSize =>
                    /\ entries' = entries
                    /\ \A order \in IterationOrders(entries) :
                          PruneBySizeReturn(entries, order, maxSize) = 0
             /\ DOMAIN entries' = DOMAIN entries
             /\ \A k \in DOMAIN entries :
                   /\ entries'[k].Latest = entries[k].Latest
                   /\ IsSubseq(entries'[k].Entries, entries[k].Entries)
                   /\ entries[k].Latest \in UUIDs(entries'[k].Entries)
                   /\ \E n \in 0..Len(NonLatest(entries[k])) :
                         NonLatest(entries'[k]) =
                             SubSeq(NonLatest(entries[k]), n + 1,
                                    Len(NonLatest(entries[k])))
             /\ Removed > 0 =>
                    \E k \in DOMAIN entries :
                        \E i \in 1..Len(entries[k].Entries) :
                            /\ entries[k].Entries[i].UUID
                                   \notin UUIDs(entries'[k].Entries)
                            /\ TotalSize(entries')
                                   + Len(entries[k].Entries[i].Rules) > maxSize
             /\ \/ TotalSize(entries') <= maxSize
                \/ \A k \in DOMAIN entries' : NonLatest(entries'[k]) = <<>>
             /\ TotalSize(entries) > maxSize =>
                    \A order \in IterationOrders(entries) :
                        entries' = PruneBySizeCache(entries, order, maxSize)
                            => PruneBySizeReturn(entries, order, maxSize) = Removed]_vars

\* of three one-byte versions of a key the oldest is gone and the second is
\* kept: PruneBySize(2) stopped as soon as the total size was 2
PruneBySizeExactWitness ==
    \E k \in DOMAIN entries :
        /\ Len(putLog[k]) = 3
        /\ \A i \in 1..3 : Len(putLog[k][i].Rules) = 1
        /\ now = 0
        /\ entries[k].Entries = <<putLog[k][2], putLog[k][3]>>

----------------------------------------------------------------------------
(* PruneBySize over several keys that hold old versions *)

\* the size limits PruneBySize is explored with
SizeLimits == -1..MaxVersions

\* RuleSetCache.Put(instance, rules), up to MaxVersions versions
PutRules(instance, rules) ==
    /\ PutVersion(MaxVersions, instance, rules)
    /\ UNCHANGED apiVars

NextSize ==
    \/ \E instance \in Keys, rules \in Blobs : PutRules(instance, rules)
    \/ \E maxSize \in SizeLimits : PruneBySize(maxSize)

SpecSize == Init /\ [][NextSize]_vars

\* C21: PruneBySize is deterministic for a given insertion order: from a
\* cache built by a sequence of Put calls, PruneBySize(maxSize) leaves the
\* same histories and returns the same count whatever the order in which
\* the map iteration yields the keys.
PruneBySizeDeterministic ==
    [][\A maxSize \in SizeLimits :
          ( /\ <<now, nextUUID, putLog>>' = <<now, nextUUID, putLog>>
            /\ PruneBySize(maxSize) )
          => \A order \in IterationOrders(entries) :
                /\ entries' = PruneBySizeCache(entries, order, maxSize)
                /\ \A other \in IterationOrders(entries) :
                      PruneBySizeReturn(entries, order, maxSize)
                          = PruneBySizeReturn(entries, other, maxSize)]_vars

----------------------------------------------------------------------------
(* The cache with SetEntryTimestamp *)

\* the map after RuleSetCache.SetEntryTimestamp(instance, index, timestamp);
\* index counts from 0
StampEntry(c, instance, index, timestamp) ==
    IF instance \in DOMAIN c
    THEN IF index >= 0 /\ index < Len(c[instance].Entries)
         THEN [c EXCEPT ![instance].Entries[index + 1].Timestamp = timestamp]
         ELSE c
    ELSE c

\* RuleSetCache.SetEntryTimestamp(instance, index, timestamp)
SetEntryTimestamp(instance, index, timestamp) ==
    /\ stamps < MaxStamps
    /\ stamps' = stamps + 1
    /\ entries' = StampEntry(entries, instance, index, timestamp)
    /\ req' = NoRequest
    /\ resp' = NoResponse
    /\ UNCHANGED <<now, nextUUID, putLog, polled, procVars, rulesets, configmaps,
                   watchVars, reconciled, edits, engineVars>>

\* the indexes and times SetEntryTimestamp is explored with: the tests move
\* entries into the past
Indexes == -1..MaxPuts
Timestamps == -MaxTime..0

\* the cache operations at one instant of the clock and SetEntryTimestamp
NextStamp ==
    \/ \E instance \in Keys, rules \in Blobs : Put(instance, rules)
    \/ \E maxAge \in MaxAges : Prune(maxAge)
    \/ \E maxSize \in MaxSizes : PruneBySize(maxSize)
    \/ \E instance \in Keys, index \in Indexes, timestamp \in Timestamps :
          SetEntryTimestamp(instance, index, timestamp)

SpecStamp == Init /\ [][NextStamp]_vars

RECURSIVE Sum(_, _)
\* the sum of the values of f over the set S
Sum(f, S) ==
    IF S = {} THEN 0
    ELSE LET x == CHOOSE x \in S : TRUE IN f[x] + Sum(f, S \ {x})

\* len(rules) summed over the entries of the sequence es whose id is in ids
RuleBytes(es, ids) ==
    Sum([i \in DOMAIN es |-> IF es[i].UUID \in ids THEN Len(es[i].Rules) ELSE 0],
        DOMAIN es)

\* len(rules) summed over all the entries Put and still stored, whatever
\* their position
StoredRuleBytes ==
    Sum([k \in DOMAIN entries |-> RuleBytes(putLog[k], UUIDs(entries[k].Entries))],
        DOMAIN entries)

\* len(rules) summed over the entries that a step removes
RemovedRuleBytes ==
    Sum([k \in DOMAIN entries |->
            RuleBytes(entries[k].Entries,
                      UUIDs(entries[k].Entries) \ UUIDs(entries'[k].Entries))],
        DOMAIN entries)

\* C22: TotalSize() is the sum of len(rules) over all entries of all keys,
\* latest and non-latest alike, and 0 for an empty cache; a Put of blob r
\* increases it by len(r), Prune and PruneBySize decrease it by the lengths
\* of the entries they remove, and SetEntryTimestamp leaves it unchanged.
SizeAccounting ==
    /\ [](/\ TotalSize(entries) = StoredRuleBytes
          /\ entries = <<>> => TotalSize(entries) = 0)
    /\ [][/\ nextUUID' # nextUUID =>
                \A instance \in Keys, rules \in Blobs :
                    Put(instance, rules)
                        => TotalSize(entries') = TotalSize(entries) + Len(rules)
          /\ ( /\ <<nextUUID, stamps>>' = <<nextUUID, stamps>>
               /\ \/ \E maxAge \in MaxAges : Prune(maxAge)
                  \/ \E maxSize \in MaxSizes : PruneBySize(maxSize) )
                => /\ DOMAIN entries' = DOMAIN entries
                   /\ TotalSize(entries') = TotalSize(entries) - RemovedRuleBytes
          /\ ( /\ stamps' # stamps
               /\ \E instance \in Keys, index \in Indexes, timestamp \in Timestamps :
                     SetEntryTimestamp(instance, index, timestamp) )
                => TotalSize(entries') = TotalSize(entries)]_vars

\* a key lost a one-byte version to a prune and still stores rules
SizeAccountingWitness ==
    \E k \in DOMAIN entries :
        /\ \E i \in DOMAIN putLog[k] :
              /\ putLog[k][i].UUID \notin UUIDs(entries[k].Entries)
              /\ Len(putLog[k][i].Rules) = 1
        /\ TotalSize(entries) >= 1
        /\ stamps = 1

\* the entries Put to a key, as they were created
Created(k) == {putLog[k][i] : i \in DOMAIN putLog[k]}

\* C23: cache entries are immutable once inserted: every stored entry has
\* the version id, the timestamp and the rules that the Put that created it
\* gave it, under any sequence of Put, Prune, PruneBySize and
\* SetEntryTimestamp calls.
EntriesImmutable ==
    \A k \in DOMAIN entries :
        \A i \in DOMAIN entries[k].Entries : entries[k].Entries[i] \in Created(k)

----------------------------------------------------------------------------
(* The sweeper and a deleted RuleSet.  The clock advances, the sweeper      *)
(* ticks and the reconciler is called for every request, all of them        *)
(* again and again.                                                         *)

\* the configuration of the sweeper: the tightest one, every entry older
\* than the current instant is stale and any byte is over the size limit
GCMaxAge == 0
GCMaxSize == 0

\* one tick of ruleSetCacheServer.rungc: Prune(MaxAge), then PruneBySize(MaxSize)
\* when TotalSize() exceeds MaxSize
rungc ==
    /\ LET aged == PruneCache(entries, GCMaxAge, now) IN
          IF TotalSize(aged) > GCMaxSize
          THEN \E order \in IterationOrders(aged) :
                  entries' = PruneBySizeCache(aged, order, GCMaxSize)
          ELSE entries' = aged
    /\ req' = NoRequest
    /\ resp' = NoResponse
    /\ UNCHANGED <<now, nextUUID, putLog, polled, procVars, apiVars>>

\* a user deletes a RuleSet
DeleteRuleSet(request) ==
    /\ request \in DOMAIN rulesets
    /\ rulesets' = [r \in DOMAIN rulesets \ {request} |-> rulesets[r]]
    /\ reconciled' = NoReconcile
    /\ UNCHANGED <<entries, now, nextUUID, putLog, httpVars, procVars,
                   configmaps, watchVars, edits, engineVars, stamps>>

\* the RuleSets of the sweeper scenario reference the ConfigMap c1
SweptRuleSetStates ==
    UNION {[requests -> {NewRuleSet(<<RuleSource(ConfigMapKind, "c1")>>)}] :
              requests \in SUBSET RuleSetRequests \ {{}}}

\* the cache is empty, some RuleSets exist and their ConfigMap has rules
InitSweep ==
    /\ NoEngines
    /\ entries = <<>>
    /\ now = 0
    /\ nextUUID = 1
    /\ putLog = [k \in Keys |-> <<>>]
    /\ req = NoRequest
    /\ resp = NoResponse
    /\ mu = [writer |-> "none", readers |-> {}]
    /\ pc = <<>>
    /\ local = <<>>
    /\ committed = <<>>
    /\ polled = [k \in Keys |-> NotPolled]
    /\ queue = {}
    /\ mapped = NoEvent
    /\ reconciled = NoReconcile
    /\ edits = 0
    /\ rulesets \in SweptRuleSetStates
    /\ configmaps = [cm \in {NamespacedName(ns, "c1") : ns \in Namespaces}
                        |-> RulesDataKey :> <<"x">>]

ReconcileAny == \E request \in RuleSetRequests : Reconcile(request, {})

NextSweep ==
    \/ Tick
    \/ rungc
    \/ ReconcileAny
    \/ \E request \in RuleSetRequests : DeleteRuleSet(request)

SpecSweep ==
    /\ InitSweep
    /\ [][NextSweep]_vars
    /\ WF_vars(Tick)
    /\ WF_vars(rungc)
    /\ WF_vars(ReconcileAny)

\* the RuleSet is gone, its key is in the cache and a reconcile of the
\* request found nothing to do
Orphaned(request) ==
    /\ request \notin DOMAIN rulesets
    /\ CacheKey(request.Namespace, request.Name) \in DOMAIN entries
    /\ reconciled # NoReconcile
    /\ reconciled.request = request
    /\ ~reconciled.found

\* the key is absent from the cache and GET /rules/namespace/name returns 404
AgedOut(request) ==
    LET key == CacheKey(request.Namespace, request.Name)
    IN  /\ key \notin DOMAIN entries
        /\ handleRules(entries, "GET", RulesPrefix \o key).status = 404

\* C24: after a RuleSet is deleted its orphaned cache entry ages out: the
\* reconcile of the absent RuleSet does nothing and, the sweeper ticking
\* again and again, the key namespace/name is eventually absent from the
\* cache and GET /rules/namespace/name eventually returns 404.
OrphanAgesOut ==
    \A request \in RuleSetRequests : Orphaned(request) ~> AgedOut(request)

----------------------------------------------------------------------------
(* The Engine controller.  Reconcile, selectDriver and                      *)
(* handleInvalidDriverConfiguration are those of engine_controller.go; the  *)
(* provisioning step is provisionIstioEngine of                             *)
(* engine_controller_driver_istio.go.  The API server is taken to answer    *)
(* the Get of the Engine and to accept the status writes; the apply of the  *)
(* WasmPlugin can fail.                                                     *)

EngineNames == {"e1", "e2"}

\* the requests the Engine reconciler is called with
EngineRequests == {NamespacedName(ns, name) : ns \in Namespaces, name \in EngineNames}

\* engine.Spec.Driver: Istio is nil or set, and Istio.Wasm is nil or set
DriverConfig(istio, wasm) == [Istio |-> istio, Wasm |-> wasm]
DriverConfigs ==
    {DriverConfig(FALSE, FALSE), DriverConfig(TRUE, FALSE), DriverConfig(TRUE, TRUE)}

\* engine.Spec.Instance, a string the user writes, as the sequence of its
\* parts: the name of a RuleSet, or the cache key of a RuleSet composed by hand
Instances == {<<"a">>, CacheKey("a", "a")}

\* r.ruleSetCacheServerCluster, set once for the process
ruleSetCacheServerCluster == "cluster"

\* an Engine as the user creates it
NewEngine(driver, instance) ==
    [Generation |-> 1, Driver |-> driver, Instance |-> instance,
     Conditions |-> <<>>, OwnedResources |-> <<>>]

InvalidDriverError ==
    <<"invalid driver configuration: only Istio driver with Wasm mode is currently supported">>
ApplyError == <<"failed to create or update WasmPlugin">>

WasmPluginNamePrefix == "coraza-engine-"
WasmPluginAPIVersion == "extensions.istio.io/v1alpha1"
WasmPluginKind == "WasmPlugin"

\* fmt.Sprintf("%s%s", WasmPluginNamePrefix, engine.Name)
WasmPluginName(name) == <<WasmPluginNamePrefix, name>>

\* EngineReconciler.buildWasmPlugin
buildWasmPlugin(request) ==
    [APIVersion |-> WasmPluginAPIVersion, Kind |-> WasmPluginKind,
     Namespace |-> request.Namespace, Name |-> WasmPluginName(request.Name),
     PluginConfig |-> [cache_server_instance |-> engines[request].Instance,
                       cache_server_cluster |-> ruleSetCacheServerCluster],
     OwnerReferences |-> <<>>]

\* variant of SetControllerReference: the object is left without an owner
SetNoReference(request, object) == object

\* controllerutil.SetControllerReference(&engine, wasmPlugin, r.Scheme)
SetControllerReference(request, object) ==
    [object EXCEPT !.OwnerReferences =
        Append(@, [Kind |-> "Engine", Name |-> request.Name, Controller |-> TRUE])]

\* the objects of the API server after CreateOrUpdate(ctx, r.Client, desired)
\* succeeded: desired is created, or replaces the object of its name
CreateOrUpdate(objects, desired) ==
    (NamespacedName(desired.Namespace, desired.Name) :> desired) @@ objects

\* the corev1.ObjectReference recorded in status.ownedResources
ObjectReference(object) ==
    [APIVersion |-> object.APIVersion, Kind |-> object.Kind,
     Name |-> object.Name, Namespace |-> object.Namespace]

\* variant of SetOwnedResource: the reference is always appended
AppendOwnedResource(owned, ref, i) == Append(owned, ref)

RECURSIVE SetOwnedResource(_, _, _)
\* the loop over engine.Status.OwnedResources from index i on: the first entry
\* of the kind and apiVersion is replaced, and the reference is appended when
\* there is none
SetOwnedResource(owned, ref, i) ==
    IF i > Len(owned) THEN Append(owned, ref)
    ELSE IF owned[i].Kind = WasmPluginKind /\ owned[i].APIVersion = WasmPluginAPIVersion
    THEN [owned EXCEPT ![i] = ref]
    ELSE SetOwnedResource(owned, ref, i + 1)

\* variant of EngineInitialStatus: the conditions are left as they are
EngineStatusUntouched(engine) == engine.Conditions

\* the conditions after the initial status patch: Progressing when there is
\* no Ready condition yet
EngineInitialStatus(engine) ==
    IF "Ready" \notin DOMAIN engine.Conditions
    THEN setStatusProgressing(engine.Conditions, engine.Generation, "Reconciling")
    ELSE engine.Conditions

\* the history record of a Reconcile call of the Engine controller
Provisioned(request, applyFails, found, reason, result, events, applied) ==
    [request |-> request, applyFails |-> applyFails, found |-> found,
     reason |-> reason, result |-> result, events |-> events, applied |-> applied]

\* variant of EngineAbsent: the request of an absent Engine is requeued
EngineAbsentRequeued(request, applyFails) ==
    /\ request \notin DOMAIN engines
    /\ provisioned' = Provisioned(request, applyFails, FALSE, "NotFound",
                                  Result(TRUE, NoError), <<>>, <<>>)
    /\ UNCHANGED <<engines, wasmplugins>>

\* Reconcile of a request whose Engine does not exist
EngineAbsent(request, applyFails) ==
    /\ request \notin DOMAIN engines
    /\ provisioned' = Provisioned(request, applyFails, FALSE, "NotFound",
                                  Result(FALSE, NoError), <<>>, <<>>)
    /\ UNCHANGED <<engines, wasmplugins>>

\* EngineReconciler.handleInvalidDriverConfiguration
handleInvalidDriverConfiguration(request, applyFails) ==
    /\ engines' = [engines EXCEPT ![request].Conditions =
                      setStatusConditionDegraded(EngineInitialStatus(engines[request]),
                                                 engines[request].Generation,
                                                 "InvalidConfiguration")]
    /\ provisioned' = Provisioned(request, applyFails, TRUE, "InvalidConfiguration",
                                  Result(FALSE, InvalidDriverError),
                                  <<Event("Warning", "InvalidConfiguration")>>, <<>>)
    /\ UNCHANGED wasmplugins

\* EngineReconciler.provisionIstioEngine
provisionIstioEngine(request, applyFails) ==
    LET wasmPlugin == SetControllerReference(request, buildWasmPlugin(request))
        status == EngineInitialStatus(engines[request])
    IN  IF applyFails
        THEN /\ engines' = [engines EXCEPT ![request].Conditions = status]
             /\ provisioned' = Provisioned(request, applyFails, TRUE, "ApplyFailed",
                                           Result(FALSE, ApplyError), <<>>, <<>>)
             /\ UNCHANGED wasmplugins
        ELSE /\ wasmplugins' = CreateOrUpdate(wasmplugins, wasmPlugin)
             /\ engines' =
                   [engines EXCEPT
                       ![request].Conditions =
                           SetStatusCondition(status, "Ready", "True",
                                              engines[request].Generation, "Configured"),
                       ![request].OwnedResources =
                           SetOwnedResource(@, ObjectReference(wasmPlugin), 1)]
             /\ provisioned' = Provisioned(request, applyFails, TRUE, "Configured",
                                           Result(FALSE, NoError),
                                           <<Event("Normal", "WasmPluginCreated")>>,
                                           <<wasmPlugin>>)

\* variant of selectDriver: Istio without Wasm is provisioned too
selectDriverIstio(request, applyFails) ==
    IF engines[request].Driver.Istio
    THEN provisionIstioEngine(request, applyFails)
    ELSE handleInvalidDriverConfiguration(request, applyFails)

\* EngineReconciler.selectDriver
selectDriver(request, applyFails) ==
    IF engines[request].Driver.Istio
    THEN IF engines[request].Driver.Wasm
         THEN provisionIstioEngine(request, applyFails)
         ELSE handleInvalidDriverConfiguration(request, applyFails)
    ELSE handleInvalidDriverConfiguration(request, applyFails)

\* EngineReconciler.Reconcile(ctx, req), without the work queue
ReconcileEngine(request, applyFails) ==
    /\ IF request \notin DOMAIN engines
       THEN EngineAbsent(request, applyFails)
       ELSE selectDriver(request, applyFails)
    /\ UNCHANGED <<entries, now, nextUUID, putLog, httpVars, procVars,
                   rulesets, configmaps, mapped, reconciled, edits, stamps>>

\* the worker of the Engine controller takes a request from the queue and
\* calls Reconcile; the request is added again (rate limited) when Reconcile
\* returns an error or Requeue
ProcessNextEngine(request, applyFails) ==
    /\ request \in queue
    /\ ReconcileEngine(request, applyFails)
    /\ queue' = IF provisioned'.result.Requeue \/ provisioned'.result.err # NoError
                THEN queue
                ELSE queue \ {request}

\* a user changes the driver of an Engine: the generation grows and the
\* GenerationChangedPredicate lets the event enqueue the request
UpdateEngine(request, driver) ==
    /\ edits < MaxEdits
    /\ edits' = edits + 1
    /\ request \in DOMAIN engines
    /\ engines[request].Driver # driver
    /\ engines' = [engines EXCEPT ![request].Generation = @ + 1,
                                  ![request].Driver = driver]
    /\ queue' = queue \cup {request}
    /\ provisioned' = NoProvision
    /\ UNCHANGED <<entries, now, nextUUID, putLog, httpVars, procVars,
                   rulesets, configmaps, mapped, reconciled, wasmplugins, stamps>>

\* the Engines that control an object, by its owner references
Owners(object) ==
    {NamespacedName(object.Namespace, object.OwnerReferences[i].Name) :
        i \in {j \in DOMAIN object.OwnerReferences :
                  object.OwnerReferences[j].Controller}}

\* a WasmPlugin is deleted: Owns(wasmPlugin) lets the event enqueue the
\* request of the Engine that controls it
DeleteWasmPlugin(key) ==
    /\ edits < MaxEdits
    /\ edits' = edits + 1
    /\ key \in DOMAIN wasmplugins
    /\ wasmplugins' = [k \in DOMAIN wasmplugins \ {key} |-> wasmplugins[k]]
    /\ queue' = queue \cup Owners(wasmplugins[key])
    /\ provisioned' = NoProvision
    /\ UNCHANGED <<entries, now, nextUUID, putLog, httpVars, procVars,
                   rulesets, configmaps, mapped, reconciled, engines, stamps>>

\* one or two Engines exist, with any driver configuration
EngineStates ==
    UNION {[requests -> {NewEngine(driver, instance) :
                            driver \in DriverConfigs, instance \in Instances}] :
              requests \in SUBSET EngineRequests \ {{}}}

----------------------------------------------------------------------------
(* The two controllers at work: the resources are reconciled from the       *)
(* queue, users change their specs, and the API server can fail the Get of  *)
(* a ConfigMap and the apply of a WasmPlugin.                               *)

\* a user changes spec.rules of a RuleSet: the generation grows and the
\* GenerationChangedPredicate lets the event enqueue the request
UpdateRuleSet(request, rules) ==
    /\ edits < MaxEdits
    /\ edits' = edits + 1
    /\ request \in DOMAIN rulesets
    /\ rulesets[request].Rules # rules
    /\ rulesets' = [rulesets EXCEPT ![request].Generation = @ + 1,
                                    ![request].Rules = rules]
    /\ queue' = queue \cup {request}
    /\ reconciled' = NoReconcile
    /\ UNCHANGED <<entries, now, nextUUID, putLog, httpVars, procVars,
                   configmaps, mapped, engineVars, stamps>>

\* the rule lists of the RuleSets: one source, of any kind and name
OperatorRuleLists == {<<source>> : source \in Sources}

\* the ConfigMaps: c1 has rules or none, c2 does not exist
OperatorConfigMapStates ==
    {NamespacedName(ns, "c1") :> data : ns \in Namespaces, data \in ConfigMapData}

\* one RuleSet and its ConfigMaps exist, or Engines exist; every resource
\* has a request in the queue
InitOperator ==
    /\ entries = <<>>
    /\ now = 0
    /\ nextUUID = 1
    /\ putLog = [k \in Keys |-> <<>>]
    /\ req = NoRequest
    /\ resp = NoResponse
    /\ mu = [writer |-> "none", readers |-> {}]
    /\ pc = <<>>
    /\ local = <<>>
    /\ committed = <<>>
    /\ polled = [k \in Keys |-> NotPolled]
    /\ mapped = NoEvent
    /\ reconciled = NoReconcile
    /\ provisioned = NoProvision
    /\ edits = 0
    /\ stamps = 0
    /\ wasmplugins = <<>>
    /\ \/ /\ rulesets \in {request :> NewRuleSet(rules) :
                              request \in RuleSetRequests, rules \in OperatorRuleLists}
          /\ configmaps \in OperatorConfigMapStates
          /\ engines = <<>>
       \/ /\ rulesets = <<>>
          /\ configmaps = <<>>
          /\ engines \in EngineStates
    /\ queue = DOMAIN rulesets \cup DOMAIN engines

RuleSetWork ==
    \E request \in RuleSetRequests, failing \in FailingGets :
        ProcessWorkItem(request, failing)

EngineWork ==
    \E request \in EngineRequests, applyFails \in BOOLEAN :
        ProcessNextEngine(request, applyFails)

NextOperator ==
    \/ RuleSetWork
    \/ EngineWork
    \/ \E request \in RuleSetRequests, rules \in OperatorRuleLists :
          UpdateRuleSet(request, rules)
    \/ \E request \in EngineRequests, driver \in DriverConfigs :
          UpdateEngine(request, driver)
    \/ \E request \in EngineRequests :
          DeleteWasmPlugin(NamespacedName(request.Namespace,
                                          WasmPluginName(request.Name)))

SpecOperator == InitOperator /\ [][NextOperator]_vars

----------------------------------------------------------------------------
(* Properties of the status conditions and of the Engine controller *)

HasCondition(conditions, type, status) ==
    /\ type \in DOMAIN conditions
    /\ conditions[type].Status = status

HasReason(conditions, type, status, reason) ==
    /\ HasCondition(conditions, type, status)
    /\ conditions[type].Reason = reason

\* a pass of the RuleSet reconciler on an existing RuleSet has completed
\* since the API objects last changed
RuleSetPassed == reconciled # NoReconcile /\ reconciled.found

\* a pass of the Engine reconciler on an existing Engine has completed
\* since the API objects last changed
EnginePassed == provisioned # NoProvision /\ provisioned.found

ReadyForOlderGeneration(resource) ==
    /\ HasCondition(resource.Conditions, "Ready", "True")
    /\ resource.Conditions["Ready"].ObservedGeneration < resource.Generation

\* the conditions are Progressing=True and Ready=False
IsProgressing(conditions) ==
    /\ HasCondition(conditions, "Progressing", "True")
    /\ HasCondition(conditions, "Ready", "False")

\* C26: condition state machine: when a resource is Ready and its spec
\* generation has grown, the pass that observes the new generation first
\* moves the resource to Progressing (Progressing=True, Ready=False), before
\* it makes it Ready or Degraded again.
GenerationMovesToProgressing ==
    [][/\ \A r \in DOMAIN rulesets :
             ( /\ ReadyForOlderGeneration(rulesets[r])
               /\ \E failing \in FailingGets : ProcessWorkItem(r, failing) )
             => IsProgressing(InitialStatus(rulesets[r]))
       /\ \A e \in DOMAIN engines :
             ( /\ ReadyForOlderGeneration(engines[e])
               /\ \E applyFails \in BOOLEAN : ProcessNextEngine(e, applyFails) )
             => IsProgressing(EngineInitialStatus(engines[e]))]_vars

\* C27: when a reconcile ends with InvalidConfiguration the resource is
\* Degraded=True with reason InvalidConfiguration and is not requeued: its
\* request is not in the work queue until the spec changes.
InvalidNotRequeued ==
    /\ ( RuleSetPassed /\ reconciled.reason = "InvalidConfiguration" )
       => /\ HasReason(rulesets[reconciled.request].Conditions,
                       "Degraded", "True", "InvalidConfiguration")
          /\ reconciled.request \notin queue
    /\ ( EnginePassed /\ provisioned.reason = "InvalidConfiguration" )
       => /\ HasReason(engines[provisioned.request].Conditions,
                       "Degraded", "True", "InvalidConfiguration")
          /\ provisioned.request \notin queue

\* the driver of the Engine is the recognized variant, Istio with Wasm
Recognized(driver) == driver.Istio /\ driver.Wasm

Owned(request) ==
    {key \in DOMAIN wasmplugins : request \in Owners(wasmplugins[key])}

\* C29: after a successful reconcile of a valid Engine E, the first or a
\* later one, there is exactly one downstream resource for E: it has the
\* name of E behind the fixed prefix, is in the namespace of E and was
\* applied with an owner reference to E, and status.ownedResources holds
\* exactly one entry, of its kind and apiVersion, that references it.
OneDownstreamResource ==
    ( EnginePassed /\ provisioned.reason = "Configured" )
    => LET request == provisioned.request
           key == NamespacedName(request.Namespace,
                                 <<WasmPluginNamePrefix, request.Name>>)
       IN  /\ Owned(request) = {key}
           /\ wasmplugins[key].Name = <<WasmPluginNamePrefix, request.Name>>
           /\ wasmplugins[key].Namespace = request.Namespace
           /\ \A i \in DOMAIN provisioned.applied :
                 request \in Owners(provisioned.applied[i])
           /\ engines[request].OwnedResources =
                 <<[APIVersion |-> WasmPluginAPIVersion, Kind |-> WasmPluginKind,
                    Name |-> key.Name, Namespace |-> key.Namespace]>>

\* the only Engine was reconciled with success a second time, after its
\* WasmPlugin was deleted
OneDownstreamResourceWitness ==
    /\ EnginePassed
    /\ provisioned.reason = "Configured"
    /\ Cardinality(DOMAIN engines) = 1
    /\ engines[provisioned.request].Generation = 1
    /\ edits = 1

\* C30: when the apply of the downstream resource fails, the Engine
\* reconcile sets Degraded=True and Ready=False with reason
\* ProvisioningFailed, records a Warning ProvisioningFailed event and
\* returns the error; it produces neither Ready=True nor the
\* WasmPluginCreated event.
ApplyFailureDegrades ==
    ( EnginePassed /\ provisioned.applyFails
        /\ Recognized(engines[provisioned.request].Driver) )
    => LET conditions == engines[provisioned.request].Conditions IN
          /\ HasReason(conditions, "Degraded", "True", "ProvisioningFailed")
          /\ HasReason(conditions, "Ready", "False", "ProvisioningFailed")
          /\ provisioned.events = <<Event("Warning", "ProvisioningFailed")>>
          /\ provisioned.result.err # NoError

\* C31: key agreement between the two reconcilers: for an Engine in namespace
\* N that names the RuleSet R, the rule-set key written into the plugin
\* config of its WasmPlugin is the cache key N/R under which the RuleSet
\* reconciler publishes the rules of R.
KeyAgreement ==
    \A key \in DOMAIN wasmplugins :
        \A e \in Owners(wasmplugins[key]) \cap DOMAIN engines :
            Len(engines[e].Instance) = 1
                => wasmplugins[key].PluginConfig.cache_server_instance =
                       CacheKey(e.Namespace, engines[e].Instance[1])

----------------------------------------------------------------------------
(* The two controllers and the deletion of their resources: the delete      *)
(* event of a RuleSet or an Engine enqueues its request, and Reconcile      *)
(* finds the resource absent.                                               *)

\* a user deletes a RuleSet; the delete event enqueues the request
RemoveRuleSet(request) ==
    /\ edits < MaxEdits
    /\ edits' = edits + 1
    /\ request \in DOMAIN rulesets
    /\ rulesets' = [r \in DOMAIN rulesets \ {request} |-> rulesets[r]]
    /\ queue' = queue \cup {request}
    /\ reconciled' = NoReconcile
    /\ UNCHANGED <<entries, now, nextUUID, putLog, httpVars, procVars,
                   configmaps, mapped, engineVars, stamps>>

\* a user deletes an Engine; the delete event enqueues the request
RemoveEngine(request) ==
    /\ edits < MaxEdits
    /\ edits' = edits + 1
    /\ request \in DOMAIN engines
    /\ engines' = [e \in DOMAIN engines \ {request} |-> engines[e]]
    /\ queue' = queue \cup {request}
    /\ provisioned' = NoProvision
    /\ UNCHANGED <<entries, now, nextUUID, putLog, httpVars, procVars,
                   rulesets, configmaps, mapped, reconciled, wasmplugins, stamps>>

NextRemoval ==
    \/ RuleSetWork
    \/ EngineWork
    \/ \E request \in RuleSetRequests : RemoveRuleSet(request)
    \/ \E request \in EngineRequests : RemoveEngine(request)

SpecRemoval == InitOperator /\ [][NextRemoval]_vars

\* the state of the cache, the API objects and the status of every resource
Effects == <<entries, putLog, nextUUID, rulesets, configmaps, engines, wasmplugins>>

\* C32: reconciling a request whose RuleSet or Engine does not exist returns
\* success without requeue and has no effect: no cache Put, no status write,
\* no event, no downstream resource created or deleted.
AbsentReconcileNoEffect ==
    [][/\ \A request \in RuleSetRequests :
             ( /\ request \notin DOMAIN rulesets
               /\ \E failing \in FailingGets : ProcessWorkItem(request, failing) )
             => /\ Effects' = Effects
                /\ reconciled'.result = Result(FALSE, NoError)
                /\ reconciled'.events = <<>>
                /\ reconciled'.puts = <<>>
                /\ request \notin queue'
       /\ \A request \in EngineRequests :
             ( /\ request \notin DOMAIN engines
               /\ \E applyFails \in BOOLEAN : ProcessNextEngine(request, applyFails) )
             => /\ Effects' = Effects
                /\ provisioned'.result = Result(FALSE, NoError)
                /\ provisioned'.events = <<>>
                /\ provisioned'.applied = <<>>
                /\ request \notin queue']_vars

\* the request of a deleted Engine was reconciled while its WasmPlugin exists
AbsentReconcileNoEffectWitness ==
    /\ provisioned # NoProvision
    /\ ~provisioned.found
    /\ provisioned.request \notin queue
    /\ NamespacedName(provisioned.request.Namespace,
                      WasmPluginName(provisioned.request.Name)) \in DOMAIN wasmplugins

----------------------------------------------------------------------------
(* The sweeper statement by statement: every call of rungc on the cache     *)
(* takes and releases RuleSetCache.mu by itself, so a Put of the reconciler *)
(* can run between any two of them.                                         *)

\* the sweeper waits in the select, or is about to run the named statement
Selecting == "select"
Stopped == "stopped"

\* the sizes the tick has read
NoSizes == [currentSize |-> 0, finalSize |-> 0]

InitGC ==
    /\ entries = <<>>
    /\ now = 0
    /\ nextUUID = 1
    /\ putLog = [k \in Keys |-> <<>>]
    /\ req = NoRequest
    /\ resp = NoResponse
    /\ polled = [k \in Keys |-> NotPolled]
    /\ mu = Unlocked
    /\ pc = [p \in {Sweeper} |-> Selecting]
    /\ local = [p \in {Sweeper} |-> NoSizes]
    /\ committed = <<>>
    /\ NoResources

\* the sweeper moves on to the next statement
GCGoto(label, sizes) ==
    /\ pc' = [pc EXCEPT ![Sweeper] = label]
    /\ local' = [local EXCEPT ![Sweeper] = sizes]
    /\ UNCHANGED <<now, nextUUID, putLog, httpVars, mu, committed, apiVars>>

\* variant of SizeExceeds: the limit itself counts as exceeded
SizeReaches(size) == size >= GCMaxSize

\* currentSize > s.gc.MaxSize
SizeExceeds(size) == size > GCMaxSize

\* case <-ticker.C: prunedByAge := s.cache.Prune(s.gc.MaxAge)
gcPrune ==
    /\ pc[Sweeper] = Selecting
    /\ entries' = PruneCache(entries, GCMaxAge, now)
    /\ GCGoto("TotalSize", NoSizes)

\* currentSize := s.cache.TotalSize(); if currentSize > s.gc.MaxSize
gcTotalSize ==
    /\ pc[Sweeper] = "TotalSize"
    /\ LET currentSize == TotalSize(entries) IN
          GCGoto(IF SizeExceeds(currentSize) THEN "PruneBySize" ELSE Selecting,
                 [local[Sweeper] EXCEPT !.currentSize = currentSize])
    /\ UNCHANGED entries

\* prunedBySize := s.cache.PruneBySize(s.gc.MaxSize)
gcPruneBySize ==
    /\ pc[Sweeper] = "PruneBySize"
    /\ \E order \in IterationOrders(entries) :
          entries' = PruneBySizeCache(entries, order, GCMaxSize)
    /\ GCGoto("finalSize", local[Sweeper])

\* finalSize := s.cache.TotalSize(); if finalSize > s.gc.MaxSize
gcFinalSize ==
    /\ pc[Sweeper] = "finalSize"
    /\ LET finalSize == TotalSize(entries) IN
          GCGoto(IF SizeExceeds(finalSize) THEN "critical" ELSE Selecting,
                 [local[Sweeper] EXCEPT !.finalSize = finalSize])
    /\ UNCHANGED entries

\* s.logger.Error(errors.New("cache size exceeds maximum"), "CRITICAL: ...")
gcCritical ==
    /\ pc[Sweeper] = "critical"
    /\ GCGoto(Selecting, local[Sweeper])
    /\ UNCHANGED entries

\* case <-ctx.Done(): return
gcDone ==
    /\ pc[Sweeper] = Selecting
    /\ GCGoto(Stopped, local[Sweeper])
    /\ UNCHANGED entries

\* the reconciler publishes rules while the sweeper runs
PutSwept(instance, rules) ==
    /\ PutVersion(MaxSweptPuts, instance, rules)
    /\ UNCHANGED apiVars

NextGC ==
    \/ Tick
    \/ \E instance \in Keys, rules \in Blobs : PutSwept(instance, rules)
    \/ gcPrune
    \/ gcTotalSize
    \/ gcPruneBySize
    \/ gcFinalSize
    \/ gcCritical
    \/ gcDone

SpecGC == InitGC /\ [][NextGC]_vars

\* every entry of the cache is the latest entry of its key
OnlyLatestEntries ==
    \A k \in DOMAIN entries :
        \A i \in DOMAIN entries[k].Entries :
            entries[k].Entries[i].UUID = entries[k].Latest

\* C33: whenever the sweeper emits the critical 'cache size exceeds maximum'
\* diagnostic on a tick, every entry in the cache at that moment is the
\* latest entry of its key, also when a reconciler Puts during the tick.
CriticalMeansOnlyLatest ==
    pc[Sweeper] = "critical" => OnlyLatestEntries

\* a step of the sweeper
SweeperStep == pc'[Sweeper] # pc[Sweeper]

\* C34: on every tick of the sweeper the age-based pruning runs first, with
\* the configured max age; the size-based pruning runs in the same tick only
\* if the total size read after the age pruning exceeds the configured max
\* size; a tick on an empty cache changes nothing; after the shutdown signal
\* was observed the sweeper prunes no more.
TickOrder ==
    /\ [](pc[Sweeper] \in {"PruneBySize", "finalSize", "critical"}
            => local[Sweeper].currentSize > GCMaxSize)
    /\ [][SweeperStep =>
            /\ pc[Sweeper] = Selecting /\ pc'[Sweeper] # Stopped
                  => /\ entries' = PruneCache(entries, GCMaxAge, now)
                     /\ pc'[Sweeper] = "TotalSize"
            /\ pc[Sweeper] = "TotalSize"
                  => /\ local'[Sweeper].currentSize = TotalSize(entries)
                     /\ entries' = entries
                     /\ pc'[Sweeper] = IF TotalSize(entries) > GCMaxSize
                                       THEN "PruneBySize" ELSE Selecting
            /\ pc[Sweeper] = "PruneBySize"
                  => \E order \in IterationOrders(entries) :
                        entries' = PruneBySizeCache(entries, order, GCMaxSize)
            /\ pc[Sweeper] \in {"finalSize", "critical", Stopped}
                  => entries' = entries
            /\ entries = <<>> => entries' = <<>> /\ pc'[Sweeper] \in
                                     {"TotalSize", Selecting, Stopped}
            /\ pc[Sweeper] # Stopped]_vars
    /\ [][pc[Sweeper] = Stopped
            => /\ pc'[Sweeper] = Stopped
               /\ entries' # entries => nextUUID' # nextUUID]_vars

\* the tick has pruned a stale entry by age and goes on to prune by size
TickOrderWitness ==
    /\ pc[Sweeper] = "PruneBySize"
    /\ \E k \in DOMAIN entries :
          /\ Len(entries[k].Entries) = 1
          /\ Len(putLog[k]) = 2

----------------------------------------------------------------------------
(* What triggers a RuleSet reconcile: the spec of a RuleSet changes, a      *)
(* ConfigMap changes, and the reconciler writes the status.                 *)

NextTrigger ==
    \/ \E ns \in Namespaces, name \in ConfigMapNames : ChangeConfigMap(ns, name)
    \/ \E request \in RuleSetRequests, rules \in OperatorRuleLists :
          UpdateRuleSet(request, rules)
    \/ Work

SpecTrigger == InitController /\ [][NextTrigger]_vars

\* the version id of the latest entry of the key of the request, 0 if none
LatestOf(request) ==
    LET key == CacheKey(request.Namespace, request.Name) IN
        IF key \in DOMAIN entries THEN entries[key].Latest ELSE 0

\* C35: a RuleSet reconcile is triggered only by a generation change of the
\* RuleSet or by a ConfigMap change, never by the reconciler's own status
\* writes: after a successful reconcile the request is not in the work
\* queue, a request enters the queue only with a generation change or a
\* ConfigMap event, and while a request is not queued nothing is Put under
\* its key and the latest version id of the key stays the same.
NoReconcileLoop ==
    /\ []( ( RuleSetPassed /\ reconciled.reason = "RulesCached" )
           => reconciled.request \notin queue )
    /\ [][\A request \in RuleSetRequests :
             /\ ( request \notin queue /\ request \in queue' )
                   => \/ mapped' # NoEvent /\ reconciled' = NoReconcile
                            /\ configmaps' # configmaps
                      \/ /\ request \in DOMAIN rulesets
                         /\ rulesets'[request].Generation # rulesets[request].Generation
             /\ request \notin queue
                   => /\ LatestOf(request)' = LatestOf(request)
                      /\ putLog'[CacheKey(request.Namespace, request.Name)] =
                            putLog[CacheKey(request.Namespace, request.Name)]]_vars

\* a RuleSet was reconciled with success: its status was written, its rules
\* are in the cache and its request has left the queue
NoReconcileLoopWitness ==
    /\ RuleSetPassed
    /\ reconciled.reason = "RulesCached"
    /\ HasCondition(rulesets[reconciled.request].Conditions, "Ready", "True")
    /\ LatestOf(reconciled.request) # 0
    /\ queue = {}

----------------------------------------------------------------------------
(* The status helpers, applied to every condition set a resource can hold *)

ConditionTypes == {"Ready", "Progressing", "Degraded"}

\* the generations of the resource and of the conditions it holds
Generations == 1..MaxGeneration

\* a condition that an earlier pass wrote
OldCondition(status, generation) ==
    [Status |-> status, ObservedGeneration |-> generation, Reason |-> "Earlier"]

\* every set of conditions: each type is absent, True or False, observed at
\* any generation
ConditionSets ==
    UNION {[types -> {OldCondition(status, generation) :
                        status \in {"True", "False"}, generation \in Generations}] :
              types \in SUBSET ConditionTypes}

StatusRequest == NamespacedName("a", "a")

\* the helper that was called, and the conditions before the call
Helped(helper, before) == [request |-> StatusRequest, helper |-> helper, before |-> before]

InitStatus ==
    /\ NoEngines
    /\ entries = <<>>
    /\ now = 0
    /\ nextUUID = 1
    /\ putLog = [k \in Keys |-> <<>>]
    /\ req = NoRequest
    /\ resp = NoResponse
    /\ mu = Unlocked
    /\ pc = <<>>
    /\ local = <<>>
    /\ committed = <<>>
    /\ polled = [k \in Keys |-> NotPolled]
    /\ \E conditions \in ConditionSets, generation \in Generations :
          rulesets = (StatusRequest :>
                        [NewRuleSet(<<>>) EXCEPT !.Generation = generation,
                                                 !.Conditions = conditions])
    /\ configmaps = <<>>
    /\ queue = {}
    /\ mapped = NoEvent
    /\ reconciled = NoReconcile
    /\ edits = 0

\* a helper is called on the conditions of the resource, with its generation
CallHelper(helper, after) ==
    /\ reconciled' = Helped(helper, rulesets[StatusRequest].Conditions)
    /\ rulesets' = [rulesets EXCEPT ![StatusRequest].Conditions = after]
    /\ UNCHANGED <<entries, now, nextUUID, putLog, httpVars, procVars,
                   configmaps, watchVars, edits, engineVars, stamps>>

CallSetStatusReady ==
    CallHelper("setStatusReady",
               setStatusReady(rulesets[StatusRequest].Conditions,
                              rulesets[StatusRequest].Generation, "Reason"))

CallSetStatusProgressing ==
    CallHelper("setStatusProgressing",
               setStatusProgressing(rulesets[StatusRequest].Conditions,
                                    rulesets[StatusRequest].Generation, "Reason"))

CallSetStatusConditionDegraded ==
    CallHelper("setStatusConditionDegraded",
               setStatusConditionDegraded(rulesets[StatusRequest].Conditions,
                                          rulesets[StatusRequest].Generation, "Reason"))

NextStatus ==
    \/ CallSetStatusReady
    \/ CallSetStatusProgressing
    \/ CallSetStatusConditionDegraded

SpecStatus == InitStatus /\ [][NextStatus]_vars

\* the condition is present with the status, written for the generation of
\* the resource
Written(resource, type, status) ==
    /\ HasReason(resource.Conditions, type, status, "Reason")
    /\ resource.Conditions[type].ObservedGeneration = resource.Generation

\* C36: whatever conditions the resource held before, setStatusReady yields
\* Ready=True and neither Degraded nor Progressing; setStatusProgressing
\* yields Progressing=True and Ready=False and leaves a Degraded condition
\* as it was; setStatusConditionDegraded yields Degraded=True and
\* Ready=False and no Progressing; each condition written carries the
\* current generation of the resource as its observed generation.
HelperPostconditions ==
    reconciled # NoReconcile =>
        LET resource == rulesets[StatusRequest]
            after == resource.Conditions
            before == reconciled.before
        IN  /\ reconciled.helper = "setStatusReady"
                => /\ Written(resource, "Ready", "True")
                   /\ DOMAIN after = {"Ready"}
            /\ reconciled.helper = "setStatusProgressing"
                => /\ Written(resource, "Progressing", "True")
                   /\ Written(resource, "Ready", "False")
                   /\ "Degraded" \in DOMAIN after <=> "Degraded" \in DOMAIN before
                   /\ "Degraded" \in DOMAIN after
                         => after["Degraded"] = before["Degraded"]
            /\ reconciled.helper = "setStatusConditionDegraded"
                => /\ Written(resource, "Degraded", "True")
                   /\ Written(resource, "Ready", "False")
                   /\ DOMAIN after = {"Ready", "Degraded"}

\* setStatusProgressing was called on a resource of generation 2 that was
\* Ready and Degraded for generation 1
HelperPostconditionsWitness ==
    /\ reconciled # NoReconcile
    /\ reconciled.helper = "setStatusProgressing"
    /\ rulesets[StatusRequest].Generation = 2
    /\ HasCondition(reconciled.before, "Ready", "True")
    /\ reconciled.before["Ready"].ObservedGeneration = 1
    /\ HasCondition(reconciled.before, "Degraded", "True")

----------------------------------------------------------------------------
(* The deletion of an Engine under the cleanup finalizer: Reconcile and     *)
(* cleanupEngine of the reconciler that carries the finalizer, with         *)
(* provisionIstioEngine and cleanupIstioEngine of the Istio driver.  The    *)
(* API server can fail the apply of the WasmPlugin, the status update, and  *)
(* the Get and the Delete of an owned resource.                             *)

EngineFinalizer == "waf.k8s.coraza.io/engine-finalizer"

\* an Engine as the user creates it: no finalizer, no deletion timestamp
NewFinalizedEngine(driver) ==
    [Generation |-> 1, Driver |-> driver, Instance |-> <<"a">>,
     Conditions |-> <<>>, OwnedResources |-> <<>>,
     Finalizers |-> {}, Deleting |-> FALSE]

\* what the API server and the clock answer during one Reconcile
ApiAnswers ==
    [applyFails : BOOLEAN, statusFails : BOOLEAN, getFails : BOOLEAN,
     deleteFails : BOOLEAN, passed : BOOLEAN]

StatusError == <<"failed to update status">>
CleanupError == <<"unsupported driver type during cleanup">>

\* the object is being deleted: r.Client.Delete was accepted
Terminating(object) == "Terminating" \in DOMAIN object

\* the outcome of a Reconcile: the Engine (absent once its last finalizer is
\* removed), the WasmPlugins, the result, the events and the path taken
Outcome(engine, present, plugins, result, events, reason) ==
    [engine |-> engine, present |-> present, plugins |-> plugins,
     result |-> result, events |-> events, reason |-> reason]

RECURSIVE CleanupLoop(_, _, _, _)
\* the loop of cleanupIstioEngine over status.ownedResources from index i:
\* the references that remain, the WasmPlugins and the events after it
CleanupLoop(owned, i, plugins, in) ==
    IF i > Len(owned)
    THEN [remaining |-> <<>>, plugins |-> plugins, events |-> <<>>]
    ELSE LET key == NamespacedName(owned[i].Namespace, owned[i].Name)
             deleted == ~in.getFails /\ key \in DOMAIN plugins /\ ~in.deleteFails
             rest == CleanupLoop(owned, i + 1,
                                 IF deleted
                                 THEN [plugins EXCEPT ![key] =
                                          ("Terminating" :> TRUE) @@ @]
                                 ELSE plugins,
                                 in)
         IN  IF ~in.getFails /\ key \notin DOMAIN plugins
             THEN rest
             ELSE [rest EXCEPT
                      !.remaining = <<owned[i]>> \o @,
                      !.events = IF ~in.getFails /\ in.deleteFails
                                 THEN <<Event("Warning", "FailedDelete")>> \o @
                                 ELSE @]

\* variant of cleanupIstioEngine: a delete that was issued counts as done
cleanupIssuedIstioEngine(engine, plugins, in) ==
    LET loop == CleanupLoop(engine.OwnedResources, 1, plugins, in) IN
        [complete |-> \A i \in DOMAIN loop.remaining :
                         /\ ~in.getFails
                         /\ ~in.deleteFails,
         err |-> NoError,
         engine |-> engine, plugins |-> loop.plugins, events |-> loop.events]

\* EngineReconciler.cleanupIstioEngine: complete only when every owned
\* resource answered not-found
cleanupIstioEngine(engine, plugins, in) ==
    LET loop == CleanupLoop(engine.OwnedResources, 1, plugins, in)
        changed == Len(loop.remaining) # Len(engine.OwnedResources)
    IN  IF changed /\ in.statusFails
        THEN [complete |-> FALSE, err |-> StatusError,
              engine |-> engine, plugins |-> loop.plugins, events |-> loop.events]
        ELSE [complete |-> loop.remaining = <<>>, err |-> NoError,
              engine |-> [engine EXCEPT !.OwnedResources = loop.remaining],
              plugins |-> loop.plugins, events |-> loop.events]

\* EngineReconciler.cleanupEngine
cleanupEngine(engine, plugins, in) ==
    IF Recognized(engine.Driver)
    THEN cleanupIstioEngine(engine, plugins, in)
    ELSE [complete |-> FALSE, err |-> CleanupError,
          engine |-> engine, plugins |-> plugins, events |-> <<>>]

\* Reconcile of an Engine whose deletion timestamp has passed
HandleDeletion(engine, plugins, in) ==
    IF EngineFinalizer \notin engine.Finalizers
    THEN Outcome(engine, TRUE, plugins, Result(FALSE, NoError), <<>>, "NoFinalizer")
    ELSE LET cleanup == cleanupEngine(engine, plugins, in) IN
         IF cleanup.err # NoError
         THEN Outcome(cleanup.engine, TRUE, cleanup.plugins,
                      Result(FALSE, cleanup.err), cleanup.events, "CleanupFailed")
         ELSE IF ~cleanup.complete
         THEN Outcome(cleanup.engine, TRUE, cleanup.plugins,
                      Result(TRUE, NoError), cleanup.events, "CleanupPending")
         ELSE Outcome([cleanup.engine EXCEPT !.Finalizers = @ \ {EngineFinalizer}],
                      FALSE, cleanup.plugins, Result(FALSE, NoError),
                      cleanup.events \o <<Event("Normal", "Deleted")>>, "Deleted")

\* EngineReconciler.provisionIstioEngine on the Engine as Reconcile holds it
ProvisionOwned(request, engine, plugins, in) ==
    LET wasmPlugin == SetControllerReference(request, buildWasmPlugin(request)) IN
        IF in.applyFails
        THEN Outcome(engine, TRUE, plugins, Result(FALSE, ApplyError), <<>>,
                     "ApplyFailed")
        ELSE IF in.statusFails
        THEN Outcome(engine, TRUE, CreateOrUpdate(plugins, wasmPlugin),
                     Result(FALSE, StatusError), <<>>, "StatusFailed")
        ELSE Outcome([engine EXCEPT
                         !.Conditions =
                             SetStatusCondition(@, "Ready", "True",
                                                engine.Generation, "Configured"),
                         !.OwnedResources =
                             SetOwnedResource(@, ObjectReference(wasmPlugin), 1)],
                     TRUE, CreateOrUpdate(plugins, wasmPlugin),
                     Result(FALSE, NoError),
                     <<Event("Normal", "WasmPluginCreated")>>, "Configured")

\* EngineReconciler.selectDriverAndProvisioningEngine
selectDriverAndProvisioningEngine(request, engine, plugins, in) ==
    IF Recognized(engine.Driver)
    THEN ProvisionOwned(request, engine, plugins, in)
    ELSE Outcome([engine EXCEPT !.Conditions =
                     SetStatusCondition(@, "Ready", "False", engine.Generation,
                                        "InvalidConfiguration")],
                 TRUE, plugins, Result(FALSE, InvalidDriverError),
                 <<Event("Warning", "InvalidConfiguration")>>,
                 "InvalidConfiguration")

\* Reconcile of an Engine that is not being deleted: the finalizer is added,
\* the initial Ready condition is set, the driver is provisioned
HandleEngine(request, engine, plugins, in) ==
    LET finalized == [engine EXCEPT !.Finalizers = @ \cup {EngineFinalizer}]
        started == [finalized EXCEPT !.Conditions =
                       SetStatusCondition(@, "Ready", "Unknown",
                                          engine.Generation, "Reconciling")]
    IN  IF "Ready" \in DOMAIN finalized.Conditions
        THEN selectDriverAndProvisioningEngine(request, finalized, plugins, in)
        ELSE IF in.statusFails
        THEN Outcome(finalized, TRUE, plugins, Result(FALSE, StatusError), <<>>,
                     "StatusFailed")
        ELSE selectDriverAndProvisioningEngine(request, started, plugins, in)

\* EngineReconciler.Reconcile of the reconciler with the finalizer
ReconcileFinalized(request, in) ==
    LET outcome ==
            IF request \notin DOMAIN engines
            THEN Outcome(<<>>, FALSE, wasmplugins, Result(FALSE, NoError), <<>>,
                         "NotFound")
            ELSE IF engines[request].Deleting /\ in.passed
            THEN HandleDeletion(engines[request], wasmplugins, in)
            ELSE HandleEngine(request, engines[request], wasmplugins, in)
    IN  /\ engines' = IF outcome.present
                      THEN [engines EXCEPT ![request] = outcome.engine]
                      ELSE [e \in DOMAIN engines \ {request} |-> engines[e]]
        /\ wasmplugins' = outcome.plugins
        /\ provisioned' = [request |-> request,
                           reason |-> outcome.reason, result |-> outcome.result,
                           events |-> outcome.events]
        /\ queue' = IF outcome.result.Requeue \/ outcome.result.err # NoError
                    THEN queue
                    ELSE queue \ {request}
        /\ UNCHANGED <<entries, now, nextUUID, putLog, httpVars, procVars,
                       rulesets, configmaps, mapped, reconciled, edits, stamps>>

\* the worker of the Engine controller takes a request from the queue
ProcessFinalized(request, in) ==
    /\ request \in queue
    /\ ReconcileFinalized(request, in)

\* a user deletes an Engine: the API server sets the deletion timestamp
\* while the Engine has a finalizer, and removes the Engine otherwise
DeleteEngine(request) ==
    /\ edits < MaxEdits
    /\ edits' = edits + 1
    /\ request \in DOMAIN engines
    /\ ~engines[request].Deleting
    /\ engines' = IF engines[request].Finalizers = {}
                  THEN [e \in DOMAIN engines \ {request} |-> engines[e]]
                  ELSE [engines EXCEPT ![request].Deleting = TRUE,
                                       ![request].Generation = @ + 1]
    /\ queue' = queue \cup {request}
    /\ provisioned' = NoProvision
    /\ UNCHANGED <<entries, now, nextUUID, putLog, httpVars, procVars,
                   rulesets, configmaps, mapped, reconciled, wasmplugins, stamps>>

\* the API server removes a WasmPlugin whose deletion was accepted
FinishDelete(key) ==
    /\ key \in DOMAIN wasmplugins
    /\ Terminating(wasmplugins[key])
    /\ wasmplugins' = [k \in DOMAIN wasmplugins \ {key} |-> wasmplugins[k]]
    /\ provisioned' = NoProvision
    /\ UNCHANGED <<entries, now, nextUUID, putLog, httpVars, procVars,
                   rulesets, configmaps, watchVars, reconciled, engines, edits, stamps>>

InitFinalizer ==
    /\ entries = <<>>
    /\ now = 0
    /\ nextUUID = 1
    /\ putLog = [k \in Keys |-> <<>>]
    /\ req = NoRequest
    /\ resp = NoResponse
    /\ mu = Unlocked
    /\ pc = <<>>
    /\ local = <<>>
    /\ committed = <<>>
    /\ polled = [k \in Keys |-> NotPolled]
    /\ rulesets = <<>>
    /\ configmaps = <<>>
    /\ mapped = NoEvent
    /\ reconciled = NoReconcile
    /\ provisioned = NoProvision
    /\ edits = 0
    /\ stamps = 0
    /\ wasmplugins = <<>>
    /\ engines \in UNION {[requests -> {NewFinalizedEngine(driver) :
                                          driver \in DriverConfigs}] :
                            requests \in SUBSET EngineRequests \ {{}}}
    /\ queue = DOMAIN engines

NextFinalizer ==
    \/ \E request \in EngineRequests, in \in ApiAnswers : ProcessFinalized(request, in)
    \/ \E request \in EngineRequests : DeleteEngine(request)
    \/ \E request \in EngineRequests :
          FinishDelete(NamespacedName(request.Namespace,
                                      WasmPluginName(request.Name)))

SpecFinalizer == InitFinalizer /\ [][NextFinalizer]_vars

\* the Reconcile that just ended removed the finalizer of its Engine
FinalizerRemoved ==
    /\ provisioned # NoProvision
    /\ provisioned.reason = "Deleted"

\* C37: the cleanup finalizer of an Engine is removed only after every
\* downstream resource the Engine created is confirmed gone: no WasmPlugin
\* of the Engine exists at the moment the finalizer is removed.
FinalizerAfterCleanup ==
    FinalizerRemoved => Owned(provisioned.request) = {}

\* the cleanup protocol for the resources that status.ownedResources lists:
\* the finalizer is removed only by a pass in which no listed resource is
\* left, a pass that issues a delete or fails to get a resource asks for a
\* requeue or returns an error, and a failed delete records Warning
\* FailedDelete and keeps the finalizer
ListedCleanup ==
    [][\A request \in DOMAIN engines :
          \A in \in ApiAnswers :
             ( /\ engines[request].Deleting /\ in.passed
               /\ EngineFinalizer \in engines[request].Finalizers
               /\ Recognized(engines[request].Driver)
               /\ ProcessFinalized(request, in) )
             => LET listed == {NamespacedName(engines[request].OwnedResources[i].Namespace,
                                              engines[request].OwnedResources[i].Name) :
                                 i \in DOMAIN engines[request].OwnedResources}
                    found == listed \cap DOMAIN wasmplugins
                    gone == listed = {} \/ (~in.getFails /\ found = {})
                IN  /\ request \notin DOMAIN engines'
                        <=> gone /\ (listed = {} \/ ~in.statusFails)
                    /\ ~gone
                        => /\ EngineFinalizer \in engines'[request].Finalizers
                           /\ request \in queue'
                    /\ ( ~in.getFails /\ found # {} /\ in.deleteFails )
                        => /\ provisioned'.events =
                                <<Event("Warning", "FailedDelete")>>
                           /\ wasmplugins' = wasmplugins
                    /\ ( ~in.getFails /\ found # {} /\ ~in.deleteFails )
                        => /\ provisioned'.result = Result(TRUE, NoError)
                           /\ \A key \in found : Terminating(wasmplugins'[key])]_vars

\* the finalizer was removed after the WasmPlugin that the Engine listed was
\* deleted and confirmed gone
ListedCleanupWitness ==
    /\ FinalizerRemoved
    /\ provisioned.request \notin DOMAIN engines
    /\ wasmplugins = <<>>
    /\ edits = 1

----------------------------------------------------------------------------
(* A polling client: consecutive GET requests for one key, on either route,  *)
(* interleaved with Put, Prune and PruneBySize.  A request completes before  *)
(* the next one begins; polled keeps, per key, the responses to the last two *)
(* requests.                                                                 *)

\* no request was made for the key
NotRead == [first |-> NoResponse, second |-> NoResponse]

\* the server has started with an empty cache
InitReads ==
    /\ entries = <<>>
    /\ now = 0
    /\ nextUUID = 1
    /\ putLog = [k \in Keys |-> <<>>]
    /\ req = NoRequest
    /\ resp = NoResponse
    /\ mu = [writer |-> "none", readers |-> {}]
    /\ pc = <<>>
    /\ local = <<>>
    /\ committed = <<>>
    /\ polled = [k \in Keys |-> NotRead]
    /\ NoResources

\* RuleSetCache.Put(instance, rules) by the reconciler
PutRead(instance, rules) ==
    /\ PutCache(MaxReadPuts, instance, rules)
    /\ UNCHANGED <<now, httpVars, procVars, apiVars>>

\* GET /rules/{key} (route "rules") or GET /rules/{key}/latest (route
\* "latest"), served by handleRules after the previous request for the key
\* has completed
Read(key, route) ==
    /\ LET urlPath == IF route = "latest" THEN LatestPath(key) ELSE RulesPath(key)
       IN  polled' = [polled EXCEPT ![key] =
                         [first |-> @.second,
                          second |-> handleRules(entries, "GET", urlPath)]]
    /\ UNCHANGED <<entries, now, nextUUID, putLog, req, resp, procVars, apiVars>>

NextReads ==
    \/ Tick
    \/ \E instance \in Keys, rules \in Blobs : PutRead(instance, rules)
    \/ \E maxAge \in MaxAges : Prune(maxAge)
    \/ \E maxSize \in MaxSizes : PruneBySize(maxSize)
    \/ \E key \in Keys, route \in {"latest", "rules"} : Read(key, route)

SpecReads == InitReads /\ [][NextReads]_vars

\* the second of two consecutive requests for key k is served the entry of
\* the first or one that was Put later (version ids are drawn in Put order)
NotBackwards(k) ==
    polled[k].first.status = 200 =>
        /\ polled[k].second.status = 200
        /\ polled[k].second.body.uuid >= polled[k].first.body.uuid

\* C38: reads are monotonic per key: of two consecutive HTTP requests for a
\* key, on either route, the second is served the same entry as the first or
\* one that was Put later, and never a miss after a hit, under any
\* interleaving with Put, Prune and PruneBySize.
MonotonicReads == \A k \in Keys : NotBackwards(k)

\* the same for the keys of RuleSets whose name is not "latest"
MonotonicReadsOfPlainNames ==
    \A ns \in Namespaces, name \in Names \ {"latest"} : NotBackwards(CacheKey(ns, name))

\* a client saw a newer version after an older one, with a prune in between
MonotonicReadsWitness ==
    \E ns \in Namespaces, name \in Names \ {"latest"} :
        LET k == CacheKey(ns, name) IN
            /\ polled[k].first.status = 200
            /\ polled[k].second.status = 200
            /\ polled[k].second.body.uuid > polled[k].first.body.uuid
            /\ Len(entries[k].Entries) = 1

----------------------------------------------------------------------------
(* The three conditions of a status, over the passes of both reconcilers *)

\* Ready=True and Degraded=True are not held together, and Progressing=True
\* is held only together with Ready=False
Consistent(conditions) ==
    /\ ~(/\ HasCondition(conditions, "Ready", "True")
         /\ HasCondition(conditions, "Degraded", "True"))
    /\ HasCondition(conditions, "Progressing", "True")
           => HasCondition(conditions, "Ready", "False")

RuleSetConditionsConsistent ==
    \A r \in DOMAIN rulesets : Consistent(rulesets[r].Conditions)

\* a RuleSet was reported Ready after it had been Degraded
RuleSetConditionsConsistentWitness ==
    /\ RuleSetPassed
    /\ HasCondition(rulesets[reconciled.request].Conditions, "Ready", "True")
    /\ edits > 0

----------------------------------------------------------------------------
(* Reconcile of a RuleSet statement by statement: the Put of the aggregated  *)
(* rules and the patch of the Ready status are two steps of the worker, and  *)
(* the sweeper prunes and the ConfigMaps change in between, at one time of   *)
(* the clock.  pc is the position of the worker in Reconcile and local holds *)
(* its variables.                                                            *)

\* the status patch was refused by the API server
PatchError == <<"failed to patch status">>

\* variant of StoreRules: the rules are not stored
StoreNothing(cacheKey, aggregatedRules) ==
    UNCHANGED <<entries, putLog, nextUUID>>

\* r.Cache.Put(cacheKey, aggregatedRules.String())
StoreRules(cacheKey, aggregatedRules) ==
    PutCache(MaxPublishPuts, cacheKey, aggregatedRules)

\* the worker is idle, the cache is empty; a RuleSet exists, and the ConfigMap
\* c1 with rules or without
InitPublish ==
    /\ NoEngines
    /\ entries = <<>>
    /\ now = 0
    /\ nextUUID = 1
    /\ putLog = [k \in Keys |-> <<>>]
    /\ req = NoRequest
    /\ resp = NoResponse
    /\ mu = [writer |-> "none", readers |-> {}]
    /\ pc = (Reconciler :> "Get")
    /\ local = (Reconciler :> <<>>)
    /\ committed = <<>>
    /\ polled = [k \in Keys |-> NotPolled]
    /\ rulesets \in {request :> NewRuleSet(rules) :
                       request \in RuleSetRequests, rules \in WatchedRuleLists}
    /\ configmaps \in OperatorConfigMapStates
    /\ queue = {}
    /\ mapped = NoEvent
    /\ reconciled = NoReconcile
    /\ edits = 0

\* Reconcile from the Get of the RuleSet to the Put: the initial status, the
\* loop over spec.rules and the Put of the aggregated rules
PublishRules(request, failing) ==
    /\ pc[Reconciler] = "Get"
    /\ request \in DOMAIN rulesets
    /\ LET outcome == Aggregate(rulesets[request].Rules, configmaps, failing,
                                request.Namespace, 1, <<>>)
           ruleset == [rulesets[request] EXCEPT !.Conditions =
                          InitialStatus(rulesets[request])]
       IN  /\ outcome.ok
           /\ StoreRules(CacheKey(request.Namespace, request.Name),
                         outcome.aggregatedRules)
           /\ rulesets' = [rulesets EXCEPT ![request] = ruleset]
           /\ pc' = (Reconciler :> "Patch")
           /\ local' = (Reconciler :> [request |-> request, failing |-> failing,
                                       ruleset |-> ruleset, outcome |-> outcome])
    /\ reconciled' = NoReconcile
    /\ UNCHANGED <<now, httpVars, mu, committed, configmaps, watchVars, edits,
                   engineVars, stamps>>

\* Reconcile from the event RulesCached to its return: setStatusReady on the
\* RuleSet as it was read, and the status patch
PatchReady(patchFails) ==
    /\ pc[Reconciler] = "Patch"
    /\ LET l == local[Reconciler]
           written == ~patchFails /\ l.request \in DOMAIN rulesets
       IN  /\ rulesets' =
                  IF written
                  THEN [rulesets EXCEPT ![l.request].Conditions =
                           setStatusReady(l.ruleset.Conditions,
                                          l.ruleset.Generation, "RulesCached")]
                  ELSE rulesets
           /\ reconciled' =
                  Reconciled(l.request, l.failing, TRUE,
                             [l.outcome EXCEPT
                                 !.result = Result(FALSE, IF written THEN NoError
                                                          ELSE PatchError)],
                             <<Event("Normal", "RulesCached")>>,
                             <<CacheKey(l.request.Namespace, l.request.Name)>>)
    /\ pc' = (Reconciler :> "Get")
    /\ local' = (Reconciler :> <<>>)
    /\ UNCHANGED <<entries, now, nextUUID, putLog, httpVars, mu, committed,
                   configmaps, watchVars, edits, engineVars, stamps>>

\* a Reconcile that does not reach the Put: the RuleSet is absent or one of
\* its sources fails
PublishNothing(request, failing) ==
    /\ pc[Reconciler] = "Get"
    /\ IF request \in DOMAIN rulesets
       THEN ReconcileFailed(request, failing,
                            Aggregate(rulesets[request].Rules, configmaps, failing,
                                      request.Namespace, 1, <<>>))
       ELSE ReconcileAbsent(request, failing)
    /\ UNCHANGED watchVars

NextPublish ==
    \/ \E request \in RuleSetRequests, failing \in FailingGets :
          PublishRules(request, failing)
    \/ \E patchFails \in BOOLEAN : PatchReady(patchFails)
    \/ \E request \in RuleSetRequests, failing \in FailingGets :
          PublishNothing(request, failing)
    \/ \E maxAge \in MaxAges : Prune(maxAge)
    \/ \E maxSize \in MaxSizes : PruneBySize(maxSize)
    \/ \E ns \in Namespaces, name \in ConfigMapNames : EditConfigMap(ns, name)

SpecPublish == InitPublish /\ [][NextPublish]_vars

\* the cache holds the key of the RuleSet and the rules of its latest entry
Published(request, aggregatedRules) ==
    LET got == Get(entries, CacheKey(request.Namespace, request.Name)) IN
        /\ got.ok
        /\ got.entry.Rules = aggregatedRules

\* C40: the Put precedes the Ready status write: whenever a reconcile writes
\* Ready=True with reason RulesCached on a RuleSet, the cache already holds
\* the key namespace/name and the rules of its latest entry are the aggregate
\* computed by that reconcile; a RuleSet is reported Ready only by a reconcile
\* that published its rules.
PutPrecedesReady ==
    /\ [][\A r \in DOMAIN rulesets' :
             (/\ HasReason(rulesets'[r].Conditions, "Ready", "True", "RulesCached")
              /\ \/ r \notin DOMAIN rulesets
                 \/ rulesets'[r].Conditions # rulesets[r].Conditions)
             => /\ pc[Reconciler] = "Patch"
                /\ local[Reconciler].request = r
                /\ Published(r, local[Reconciler].outcome.aggregatedRules)
                /\ Last(putLog[CacheKey(r.Namespace, r.Name)]).Rules =
                       local[Reconciler].outcome.aggregatedRules
                /\ entries' = entries]_vars
    /\ [](\A r \in DOMAIN rulesets :
             HasReason(rulesets[r].Conditions, "Ready", "True", "RulesCached")
                 => Get(entries, CacheKey(r.Namespace, r.Name)).ok)

\* a reconcile reported Ready for its second version of the rules, after the
\* sweeper had pruned the first
PutPrecedesReadyWitness ==
    /\ pc[Reconciler] = "Get"
    /\ RuleSetPassed
    /\ reconciled.reason = "RulesCached"
    /\ reconciled.result.err = NoError
    /\ HasReason(rulesets[reconciled.request].Conditions, "Ready", "True", "RulesCached")
    /\ Len(putLog[reconciled.puts[1]]) = 2
    /\ Len(entries[reconciled.puts[1]].Entries) = 1

====
